---------------------------- MODULE Spec2Model ----------------------------
(***************************************************************************)
(* Order-book strategies of orderly_edge:                                  *)
(*   EnhancedAbsorptionStrategy   src/edges/absorption.py                  *)
(*   AbsorptionStrategy           src/nautilus_trader/strategies/          *)
(*                                absorption.py                            *)
(*   LiquidityTaker               src/edges/liquidity_taker.py             *)
(*                                                                         *)
(* Prices are integers (ticks) and quantities are integers (multiples of   *)
(* the instrument's size increment), so the float conversions of the       *)
(* source (as_double, float) are exact on every value of the model.  The   *)
(* dominance factors 1.5 and 2 are kept as the fractions 3/2 and 2/1 and   *)
(* the comparisons are cross-multiplied.                                   *)
(***************************************************************************)
EXTENDS Integers, Sequences, FiniteSets, TLC

VARIABLES
    variant,               \* the strategy class that was instantiated
    instrument,            \* self.instrument
    now,                   \* the last value self.clock.utc_now() returned
    prev_bid_levels,       \* self._prev_bid_levels
    prev_ask_levels,       \* self._prev_ask_levels
    last_trade_timestamp,  \* self._last_trade_timestamp
    bid_liquidity_areas,   \* self._bid_liquidity_areas  (Enhanced)
    ask_liquidity_areas,   \* self._ask_liquidity_areas  (Enhanced)
    absorption_events,     \* self._absorption_events    (Enhanced)
    trades_taken,          \* self._trades_taken         (Enhanced)
    last_check_time,       \* self._last_check_time      (Enhanced)
    lifecycle,             \* "READY", "RUNNING" or "STOPPED"
    subscriptions,         \* the feeds the strategy is subscribed to
    stop_requests,         \* cancel/close requests made to the framework
    submitted,             \* the orders handed to self.submit_order, in order
    last,                  \* what the last handler that ran observed and did
    call,                  \* the last call of a pure helper: arguments, result
    taker                  \* the LiquidityTaker instance, when one was built

vars == << variant, instrument, now, prev_bid_levels, prev_ask_levels,
           last_trade_timestamp, bid_liquidity_areas, ask_liquidity_areas,
           absorption_events, trades_taken, last_check_time, lifecycle,
           subscriptions, stop_requests, submitted, last, call, taker >>

strategy_vars == << variant, instrument, now, prev_bid_levels,
                    prev_ask_levels, last_trade_timestamp, bid_liquidity_areas,
                    ask_liquidity_areas, absorption_events, trades_taken,
                    last_check_time, lifecycle, subscriptions, stop_requests,
                    submitted, last, taker >>

-----------------------------------------------------------------------------
(* Bounds of the model.                                                    *)

\* Prices of one side of the book are 1..NumPrices.
NumPrices == 2
\* A snapshot handed to a calculator holds quantities 1..MaxQty.
MaxQty == 2
\* A book level holds 1..MaxLevelOrders orders of size 1..MaxOrderSize.
MaxLevelOrders == 2
MaxOrderSize == 2
\* The order resting at the top of a side of the book of a running strategy
\* has size 1..MaxBookSize.
MaxBookSize == 4
\* The clock reads 0..MaxNow; within one handler it advances by at most
\* MaxDrift between two reads.
MaxNow == 2
MaxDrift == 1
\* ts_event of a delta is 0..MaxTs.
MaxTs == 2
\* The strategy is followed until it has recorded MaxLog absorption events
\* or submitted MaxSubmitted orders.
MaxLog == 2
MaxSubmitted == 2

-----------------------------------------------------------------------------
(* Python values.                                                          *)

\* An Optional value: None, or Some(x) whose value is Get.
None == << >>
Some(x) == << x >>
Get(v) == v[1]

\* str(p) of a price: the string that spells p.
Str(p) == [str |-> p]

\* [str(p) for p in l]
StrList(l) == [i \in DOMAIN l |-> Str(l[i])]

\* The empty dict {}.
EmptyDict == [p \in {} |-> 0]

\* d[k] = v on a dict.
DictPut(d, k, v) == [p \in (DOMAIN d) \cup {k} |-> IF p = k THEN v ELSE d[p]]

\* A faulty slice that keeps the whole list.
TakeAll(l, n) == l

\* l[:n] on a list.
Take(l, n) == SubSeq(l, 1, IF n < Len(l) THEN n ELSE Len(l))

Range(s) == {s[i] : i \in DOMAIN s}

RECURSIVE SumSeq(_)
SumSeq(s) == IF s = << >> THEN 0 ELSE s[1] + SumSeq(Tail(s))

RECURSIVE SumOver(_, _)
\* The sum of f[p] over the prices p of S.
SumOver(f, S) ==
    IF S = {} THEN 0
    ELSE LET p == CHOOSE q \in S : TRUE IN f[p] + SumOver(f, S \ {p})

-----------------------------------------------------------------------------
(* The order book the framework keeps: a side is a list of levels, best    *)
(* first; a level has a price and the orders resting at it, each of which  *)
(* carries the level's price and its own size.                             *)

Prices == 1 .. NumPrices

Level(p, sizes) ==
    [price |-> p, orders |-> [i \in DOMAIN sizes |-> [price |-> p, size |-> sizes[i]]]]

\* The levels at price p holding 1..max_orders orders of size 1..max_size.
LevelsAt(p, max_orders, max_size) ==
    {Level(p, sizes) : sizes \in UNION {[1 .. n -> 1 .. max_size] : n \in 1 .. max_orders}}

\* Bids are ranked by falling price, asks by rising price.
Ranked(side, levels) ==
    \A i \in 1 .. Len(levels) - 1 :
        IF side = "bid" THEN levels[i].price > levels[i + 1].price
                        ELSE levels[i].price < levels[i + 1].price

\* The ranked lists of at most n levels of one side.
LevelLists(side, n, prices, max_orders, max_size) ==
    UNION {{l \in [1 .. k -> UNION {LevelsAt(p, max_orders, max_size) : p \in prices}] :
               Ranked(side, l)}
           : k \in 0 .. n}

\* A faulty level size: the size of the level's first order.
LevelSizeFirstOrder(level) == level.orders[1].size

\* sum(order.size for order in level.orders())
LevelSize(level) == SumSeq([i \in DOMAIN level.orders |-> level.orders[i].size])

-----------------------------------------------------------------------------
(* _extract_levels, EnhancedAbsorptionStrategy.                            *)

RECURSIVE ExtractLevelsEnhanced(_)
ExtractLevelsEnhanced(levels) ==
    IF levels = << >> THEN EmptyDict
    ELSE LET n == Len(levels)
             level == levels[n]
         IN  DictPut(ExtractLevelsEnhanced(SubSeq(levels, 1, n - 1)),
                     level.price, LevelSize(level))

(* _extract_levels, AbsorptionStrategy: result[order.price] = order.size    *)
(* for each order of each level, so a later order overwrites an earlier.   *)

RECURSIVE ExtractOrders(_, _)
ExtractOrders(result, orders) ==
    IF orders = << >> THEN result
    ELSE ExtractOrders(DictPut(result, orders[1].price, orders[1].size), Tail(orders))

RECURSIVE ExtractLevelsFrom(_, _)
ExtractLevelsFrom(result, levels) ==
    IF levels = << >> THEN result
    ELSE ExtractLevelsFrom(ExtractOrders(result, levels[1].orders), Tail(levels))

ExtractLevelsAbsorption(levels) == ExtractLevelsFrom(EmptyDict, levels)

-----------------------------------------------------------------------------
(* _calculate_liquidity_absorption, EnhancedAbsorptionStrategy.  The loop  *)
(* runs over the liquidity-area list in its order; acc holds the running   *)
(* absorption_volume, absorbed_prices and the log.debug lines written.     *)

\* A faulty iteration that also counts a level whose quantity is unchanged.
LiquidityStepNonStrict(acc, prev_levels, current_levels, price) ==
    IF price \in DOMAIN prev_levels
    THEN IF price \in DOMAIN current_levels
         THEN IF current_levels[price] <= prev_levels[price]
              THEN LET volume_change == prev_levels[price] - current_levels[price]
                   IN  [volume |-> acc.volume + volume_change,
                        prices |-> Append(acc.prices, price),
                        debug  |-> Append(acc.debug, << price, volume_change >>)]
              ELSE acc
         ELSE [volume |-> acc.volume + prev_levels[price],
               prices |-> Append(acc.prices, price),
               debug  |-> Append(acc.debug, << price, prev_levels[price] >>)]
    ELSE acc

\* A faulty iteration that applies the reprice guard of _calculate_absorption
\* to a vanished level.
LiquidityStepGuarded(acc, prev_levels, current_levels, price) ==
    IF price \in DOMAIN prev_levels
    THEN IF price \in DOMAIN current_levels
         THEN IF current_levels[price] < prev_levels[price]
              THEN LET volume_change == prev_levels[price] - current_levels[price]
                   IN  [volume |-> acc.volume + volume_change,
                        prices |-> Append(acc.prices, price),
                        debug  |-> Append(acc.debug, << price, volume_change >>)]
              ELSE acc
         ELSE IF \E p \in DOMAIN current_levels :
                     p \notin DOMAIN prev_levels /\ p > price
              THEN acc
              ELSE [volume |-> acc.volume + prev_levels[price],
                    prices |-> Append(acc.prices, price),
                    debug  |-> Append(acc.debug, << price, prev_levels[price] >>)]
    ELSE acc

\* A faulty iteration that puts each affected price at the head of the list.
LiquidityStepPrepend(acc, prev_levels, current_levels, price) ==
    IF price \in DOMAIN prev_levels
    THEN IF price \in DOMAIN current_levels
            /\ current_levels[price] < prev_levels[price]
         THEN LET volume_change == prev_levels[price] - current_levels[price]
              IN  [volume |-> acc.volume + volume_change,
                   prices |-> << price >> \o acc.prices,
                   debug  |-> Append(acc.debug, << price, volume_change >>)]
         ELSE IF price \notin DOMAIN current_levels
              THEN [volume |-> acc.volume + prev_levels[price],
                    prices |-> << price >> \o acc.prices,
                    debug  |-> Append(acc.debug, << price, prev_levels[price] >>)]
              ELSE acc
    ELSE acc

LiquidityStep(acc, prev_levels, current_levels, price) ==
    IF price \in DOMAIN prev_levels
    THEN IF price \in DOMAIN current_levels
            /\ current_levels[price] < prev_levels[price]
         THEN LET volume_change == prev_levels[price] - current_levels[price]
              IN  [volume |-> acc.volume + volume_change,
                   prices |-> Append(acc.prices, price),
                   debug  |-> Append(acc.debug, << price, volume_change >>)]
         ELSE IF price \notin DOMAIN current_levels
              THEN [volume |-> acc.volume + prev_levels[price],
                    prices |-> Append(acc.prices, price),
                    debug  |-> Append(acc.debug, << price, prev_levels[price] >>)]
              ELSE acc
    ELSE acc

RECURSIVE LiquidityLoop(_, _, _, _)
LiquidityLoop(acc, prev_levels, current_levels, liquidity_areas) ==
    IF liquidity_areas = << >> THEN acc
    ELSE LiquidityLoop(LiquidityStep(acc, prev_levels, current_levels, liquidity_areas[1]),
                       prev_levels, current_levels, Tail(liquidity_areas))

CalculateLiquidityAbsorption(prev_levels, current_levels, liquidity_areas) ==
    LiquidityLoop([volume |-> 0, prices |-> << >>, debug |-> << >>],
                  prev_levels, current_levels, liquidity_areas)

(* _calculate_absorption, AbsorptionStrategy.  RepriceGuard is the any()   *)
(* of the source: some price of the current snapshot that the previous     *)
(* snapshot lacks is greater than the vanished price.                      *)

RepriceGuard(prev_levels, current_levels, price) ==
    \E p \in DOMAIN current_levels : p \notin DOMAIN prev_levels /\ p > price

\* A faulty iteration that adds the whole previous size of a shrunk level.
AbsorptionContributionWhole(prev_levels, current_levels, price) ==
    LET prev_size == prev_levels[price]
    IN  IF price \in DOMAIN current_levels /\ current_levels[price] < prev_size
        THEN prev_size
        ELSE IF price \notin DOMAIN current_levels
             THEN IF ~RepriceGuard(prev_levels, current_levels, price)
                  THEN prev_size
                  ELSE 0
             ELSE 0

\* What one iteration of the loop adds to absorption_volume.
AbsorptionContribution(prev_levels, current_levels, price) ==
    LET prev_size == prev_levels[price]
    IN  IF price \in DOMAIN current_levels /\ current_levels[price] < prev_size
        THEN prev_size - current_levels[price]
        ELSE IF price \notin DOMAIN current_levels
             THEN IF ~RepriceGuard(prev_levels, current_levels, price)
                  THEN prev_size
                  ELSE 0
             ELSE 0

CalculateAbsorption(prev_levels, current_levels) ==
    SumOver([p \in DOMAIN prev_levels |->
                 AbsorptionContribution(prev_levels, current_levels, p)],
            DOMAIN prev_levels)

-----------------------------------------------------------------------------
(* The pure helpers on their own: one call, which draws its arguments from *)
(* the bounded sets below and records them with the result.                *)

\* The snapshots (dicts price -> quantity) over Prices.
Snapshots == UNION {[S -> 1 .. MaxQty] : S \in SUBSET Prices}

\* The lists of distinct prices in the rank order of one side.
PriceLists(side) ==
    UNION {{l \in [1 .. k -> Prices] :
               \A i \in 1 .. k - 1 : IF side = "bid" THEN l[i] > l[i + 1]
                                                     ELSE l[i] < l[i + 1]}
           : k \in 0 .. NumPrices}

Sides == {"bid", "ask"}

\* The ranked lists of at most n levels of one side over Prices.
HelperLevels(side, n) == LevelLists(side, n, Prices, MaxLevelOrders, MaxOrderSize)

InitCall ==
    call = [fn |-> "none"]

CallExtractLevelsEnhanced ==
    /\ call.fn = "none"
    /\ \E side \in Sides : \E levels \in HelperLevels(side, NumPrices) :
          call' = [fn |-> "extract_levels_enhanced", side |-> side,
                   levels |-> levels,
                   result |-> ExtractLevelsEnhanced(levels)]
    /\ UNCHANGED strategy_vars

CallExtractLevelsAbsorption ==
    /\ call.fn = "none"
    /\ \E side \in Sides : \E levels \in HelperLevels(side, NumPrices) :
          call' = [fn |-> "extract_levels_absorption", side |-> side,
                   levels |-> levels,
                   result |-> ExtractLevelsAbsorption(levels)]
    /\ UNCHANGED strategy_vars

CallCalculateLiquidityAbsorption ==
    /\ call.fn = "none"
    /\ \E side \in Sides : \E prev \in Snapshots, cur \in Snapshots :
       \E areas \in PriceLists(side) :
          call' = [fn |-> "calculate_liquidity_absorption", side |-> side,
                   prev |-> prev, cur |-> cur, areas |-> areas,
                   result |-> CalculateLiquidityAbsorption(prev, cur, areas)]
    /\ UNCHANGED strategy_vars

CallCalculateAbsorption ==
    /\ call.fn = "none"
    /\ \E side \in Sides : \E prev \in Snapshots, cur \in Snapshots :
          call' = [fn |-> "calculate_absorption", side |-> side,
                   prev |-> prev, cur |-> cur,
                   contrib |-> [p \in DOMAIN prev |->
                                   AbsorptionContribution(prev, cur, p)],
                   result |-> CalculateAbsorption(prev, cur)]
    /\ UNCHANGED strategy_vars

-----------------------------------------------------------------------------
(* Configuration (EnhancedAbsorptionConfig, AbsorptionConfig).  Clock time *)
(* and ts_event are counted in seconds.                                    *)

min_absorption_volume == 1
liquidity_threshold == 1
monitor_levels == 1
cooldown_period_seconds == 1
trade_size == 1

\* trade_pct_of_absorption as the fraction TradePctNum / TradePctDen.
TradePctNum == 1
TradePctDen == 5
max_trade_size == 1

\* 1_000_000_000 ns, in the unit of ts_event.
OneSecond == 1

\* The dominance factor as a fraction: 1.5 (Enhanced) and 2 (Absorption).
EnhancedFactorNum == 3
EnhancedFactorDen == 2
AbsorptionFactorNum == 2
AbsorptionFactorDen == 1

-----------------------------------------------------------------------------
(* The book an event finds in the cache.                                   *)

\* cached is FALSE when cache.order_book returns None.
NoBook == [cached |-> FALSE, bids |-> << >>, asks |-> << >>]

\* The running strategy is followed on the top of the book: a side is empty
\* or holds its best level, the bid at BidPrice and the ask at AskPrice, with
\* one resting order.
BidPrice == CHOOSE p \in Prices : \A q \in Prices : p <= q
AskPrice == BidPrice + 1

TopOfBook(p) == {<< >>} \cup {<< Level(p, << n >>) >> : n \in 1 .. MaxBookSize}

Books ==
    {NoBook} \cup
    [cached : {TRUE}, bids : TopOfBook(BidPrice), asks : TopOfBook(AskPrice)]

\* not book or not book.bids() or not book.asks()
Incomplete(bk) == ~bk.cached \/ bk.bids = << >> \/ bk.asks = << >>

\* A faulty lookup that makes up a best bid for an empty bid side.
BestBidPriceDefault(bk) ==
    IF bk.bids = << >> THEN Some(BidPrice) ELSE Some(bk.bids[1].price)

BestBidPrice(bk) == IF bk.bids = << >> THEN None ELSE Some(bk.bids[1].price)
BestAskPrice(bk) == IF bk.asks = << >> THEN None ELSE Some(bk.asks[1].price)

-----------------------------------------------------------------------------
(* identify_liquidity_areas: the loop over one side.                       *)

RECURSIVE LiquidityAreasOf(_)
LiquidityAreasOf(levels) ==
    IF levels = << >> THEN << >>
    ELSE LET rest == LiquidityAreasOf(Tail(levels))
         IN  IF LevelSize(levels[1]) > liquidity_threshold
             THEN << levels[1].price >> \o rest
             ELSE rest

\* A faulty identifier that looks at every level of the book.
IdentifyLiquidityAreasNoCutoff(bk, bid_areas, ask_areas) ==
    IF Incomplete(bk)
    THEN [bid |-> bid_areas, ask |-> ask_areas]
    ELSE [bid |-> LiquidityAreasOf(bk.bids), ask |-> LiquidityAreasOf(bk.asks)]

\* A faulty identifier that adds the new areas to the ones it holds.
IdentifyLiquidityAreasMerging(bk, bid_areas, ask_areas) ==
    IF Incomplete(bk)
    THEN [bid |-> bid_areas, ask |-> ask_areas]
    ELSE [bid |-> bid_areas \o LiquidityAreasOf(Take(bk.bids, monitor_levels)),
          ask |-> ask_areas \o LiquidityAreasOf(Take(bk.asks, monitor_levels))]

\* A faulty identifier that clears the lists before it looks at the book.
IdentifyLiquidityAreasClearFirst(bk, bid_areas, ask_areas) ==
    IF Incomplete(bk)
    THEN [bid |-> << >>, ask |-> << >>]
    ELSE [bid |-> LiquidityAreasOf(Take(bk.bids, monitor_levels)),
          ask |-> LiquidityAreasOf(Take(bk.asks, monitor_levels))]

\* The two lists after identify_liquidity_areas has run on book bk.
IdentifyLiquidityAreas(bk, bid_areas, ask_areas) ==
    IF Incomplete(bk)
    THEN [bid |-> bid_areas, ask |-> ask_areas]
    ELSE [bid |-> LiquidityAreasOf(Take(bk.bids, monitor_levels)),
          ask |-> LiquidityAreasOf(Take(bk.asks, monitor_levels))]

-----------------------------------------------------------------------------
(* _check_and_act_on_absorption.                                           *)

\* A faulty submit_order that hands the order over twice.
SubmitOrderTwice(log, order, ts) ==
    Append(Append(log, [order |-> order, ts |-> ts]), [order |-> order, ts |-> ts])

\* self.submit_order(order): the order joins the log of submissions with the
\* clock reading the handler took for it.
SubmitOrder(log, order, ts) == Append(log, [order |-> order, ts |-> ts])

\* instrument.make_qty(Quantity(value, self.instrument.size_precision)) on a
\* value of num / den size increments: Quantity keeps size_precision
\* decimals, so the result is the nearest whole number of increments (a half
\* goes up), and make_qty leaves a quantity of that precision as it is.
MakeQty(value) == (2 * value.num + value.den) \div (2 * value.den)

\* A faulty order_factory.limit call that prices the order one tick above
\* the price it is given.
LimitOrderOffPrice(side, price, quantity) ==
    [instrument_id |-> Get(instrument), order_side |-> side, price |-> price + 1,
     quantity |-> quantity, post_only |-> FALSE, time_in_force |-> "FOK"]

\* order_factory.limit(instrument_id=self.instrument.id, ...).  Prices are
\* ticks of the instrument, so instrument.make_price is exact on them.
LimitOrder(side, price, quantity) ==
    [instrument_id |-> Get(instrument), order_side |-> side, price |-> price,
     quantity |-> quantity, post_only |-> FALSE, time_in_force |-> "FOK"]

\* A faulty cooldown check that never holds an evaluation back.
InCooldownEnhancedOff(seconds_since_last_trade) == FALSE

\* A faulty cooldown check that still holds an evaluation back when exactly
\* the cooldown has elapsed.
InCooldownEnhancedInclusive(seconds_since_last_trade) ==
    seconds_since_last_trade <= cooldown_period_seconds

InCooldownEnhanced(seconds_since_last_trade) ==
    seconds_since_last_trade < cooldown_period_seconds

\* A faulty sell rule whose volume threshold is not strict.
SellSignalEnhancedNonStrict(bid_volume, ask_volume) ==
    /\ bid_volume >= min_absorption_volume
    /\ bid_volume * EnhancedFactorDen > ask_volume * EnhancedFactorNum

SellSignalEnhanced(bid_volume, ask_volume) ==
    /\ bid_volume > min_absorption_volume
    /\ bid_volume * EnhancedFactorDen > ask_volume * EnhancedFactorNum

\* A faulty buy rule that leaves out the comparison with the bid volume.
BuySignalEnhancedAlone(bid_volume, ask_volume) ==
    ask_volume > min_absorption_volume

BuySignalEnhanced(bid_volume, ask_volume) ==
    /\ ask_volume > min_absorption_volume
    /\ ask_volume * EnhancedFactorDen > bid_volume * EnhancedFactorNum

\* A faulty _check_and_act_on_absorption whose BUY branch does not count the
\* trade.
CheckAndActEnhancedBuyUncounted(bid_absorption, ask_absorption, bk, r1, r2, r3) ==
    LET bid_volume == bid_absorption.volume
        ask_volume == ask_absorption.volume
        seconds_since_last_trade == r1 - Get(last_trade_timestamp)
        unchanged == [last_trade_timestamp |-> last_trade_timestamp,
                      trades_taken |-> trades_taken,
                      absorption_events |-> absorption_events,
                      submitted |-> submitted,
                      now |-> r1, outcome |-> "cooldown",
                      checked_at |-> Some(r1),
                      seconds_since_last_trade |-> Some(seconds_since_last_trade)]
        events == Append(absorption_events,
                         [timestamp |-> r2,
                          bid_absorption |-> bid_volume,
                          bid_prices |-> StrList(bid_absorption.prices),
                          ask_absorption |-> ask_volume,
                          ask_prices |-> StrList(ask_absorption.prices)])
        recorded == [unchanged EXCEPT !.absorption_events = events, !.now = r2]
        submit(side, price) ==
            [recorded EXCEPT
                !.last_trade_timestamp = Some(r3),
                !.trades_taken = trades_taken + (IF side = "SELL" THEN 1 ELSE 0),
                !.submitted = SubmitOrder(submitted,
                                          LimitOrder(side, price,
                                                     MakeQty([num |-> trade_size,
                                                              den |-> 1])),
                                          r3),
                !.now = r3]
    IN  IF InCooldownEnhanced(seconds_since_last_trade)
        THEN unchanged
        ELSE IF SellSignalEnhanced(bid_volume, ask_volume)
             THEN IF BestBidPrice(bk) # None
                  THEN [submit("SELL", Get(BestBidPrice(bk))) EXCEPT !.outcome = "sell"]
                  ELSE [recorded EXCEPT !.outcome = "sell_no_price"]
             ELSE IF BuySignalEnhanced(bid_volume, ask_volume)
                  THEN IF BestAskPrice(bk) # None
                       THEN [submit("BUY", Get(BestAskPrice(bk))) EXCEPT !.outcome = "buy"]
                       ELSE [recorded EXCEPT !.outcome = "buy_no_price"]
                  ELSE [recorded EXCEPT !.outcome = "none"]

\* The fields after the call: r1, r2, r3 are the clock readings of the
\* cooldown check, of the recorded event and of the submission.
CheckAndActEnhanced(bid_absorption, ask_absorption, bk, r1, r2, r3) ==
    LET bid_volume == bid_absorption.volume
        ask_volume == ask_absorption.volume
        seconds_since_last_trade == r1 - Get(last_trade_timestamp)
        unchanged == [last_trade_timestamp |-> last_trade_timestamp,
                      trades_taken |-> trades_taken,
                      absorption_events |-> absorption_events,
                      submitted |-> submitted,
                      now |-> r1, outcome |-> "cooldown",
                      checked_at |-> Some(r1),
                      seconds_since_last_trade |-> Some(seconds_since_last_trade)]
        events == Append(absorption_events,
                         [timestamp |-> r2,
                          bid_absorption |-> bid_volume,
                          bid_prices |-> StrList(bid_absorption.prices),
                          ask_absorption |-> ask_volume,
                          ask_prices |-> StrList(ask_absorption.prices)])
        recorded == [unchanged EXCEPT !.absorption_events = events, !.now = r2]
        submit(side, price) ==
            [recorded EXCEPT
                !.last_trade_timestamp = Some(r3),
                !.trades_taken = trades_taken + 1,
                !.submitted = SubmitOrder(submitted,
                                          LimitOrder(side, price,
                                                     MakeQty([num |-> trade_size,
                                                              den |-> 1])),
                                          r3),
                !.now = r3]
    IN  IF InCooldownEnhanced(seconds_since_last_trade)
        THEN unchanged
        ELSE IF SellSignalEnhanced(bid_volume, ask_volume)
             THEN IF BestBidPrice(bk) # None
                  THEN [submit("SELL", Get(BestBidPrice(bk))) EXCEPT !.outcome = "sell"]
                  ELSE [recorded EXCEPT !.outcome = "sell_no_price"]
             ELSE IF BuySignalEnhanced(bid_volume, ask_volume)
                  THEN IF BestAskPrice(bk) # None
                       THEN [submit("BUY", Get(BestAskPrice(bk))) EXCEPT !.outcome = "buy"]
                       ELSE [recorded EXCEPT !.outcome = "buy_no_price"]
                  ELSE [recorded EXCEPT !.outcome = "none"]

(* AbsorptionStrategy: no event log and no trade counter; trade_size is    *)
(* min(volume * trade_pct_of_absorption, max_trade_size), kept as a        *)
(* fraction num / den of size increments until it is made a Quantity.      *)

\* A faulty cooldown check that never holds an evaluation back.
InCooldownAbsorptionOff(seconds_since_last_trade) == FALSE

InCooldownAbsorption(seconds_since_last_trade) ==
    seconds_since_last_trade < cooldown_period_seconds

SellSignalAbsorption(bid_absorption, ask_absorption) ==
    /\ bid_absorption > min_absorption_volume
    /\ bid_absorption * AbsorptionFactorDen > ask_absorption * AbsorptionFactorNum

BuySignalAbsorption(bid_absorption, ask_absorption) ==
    /\ ask_absorption > min_absorption_volume
    /\ ask_absorption * AbsorptionFactorDen > bid_absorption * AbsorptionFactorNum

TradeSizeAbsorption(volume) ==
    [num |-> IF volume * TradePctNum < max_trade_size * TradePctDen
             THEN volume * TradePctNum
             ELSE max_trade_size * TradePctDen,
     den |-> TradePctDen]

\* r1 and r3 are the clock readings of the cooldown check and of the
\* submission.
CheckAndActAbsorption(bid_absorption, ask_absorption, bk, r1, r3) ==
    LET seconds_since_last_trade == r1 - Get(last_trade_timestamp)
        unchanged == [last_trade_timestamp |-> last_trade_timestamp,
                      trades_taken |-> trades_taken,
                      absorption_events |-> absorption_events,
                      submitted |-> submitted,
                      now |-> r1, outcome |-> "cooldown",
                      checked_at |-> Some(r1),
                      seconds_since_last_trade |-> Some(seconds_since_last_trade)]
        submit(side, price, volume) ==
            [unchanged EXCEPT
                !.last_trade_timestamp = Some(r3),
                !.submitted = SubmitOrder(submitted,
                                          LimitOrder(side, price,
                                                     MakeQty(TradeSizeAbsorption(volume))),
                                          r3),
                !.now = r3]
    IN  IF InCooldownAbsorption(seconds_since_last_trade)
        THEN unchanged
        ELSE IF SellSignalAbsorption(bid_absorption, ask_absorption)
             THEN IF BestBidPrice(bk) # None
                  THEN [submit("SELL", Get(BestBidPrice(bk)), bid_absorption)
                            EXCEPT !.outcome = "sell"]
                  ELSE [unchanged EXCEPT !.outcome = "sell_no_price"]
             ELSE IF BuySignalAbsorption(bid_absorption, ask_absorption)
                  THEN IF BestAskPrice(bk) # None
                       THEN [submit("BUY", Get(BestAskPrice(bk)), ask_absorption)
                                 EXCEPT !.outcome = "buy"]
                       ELSE [unchanged EXCEPT !.outcome = "buy_no_price"]
                  ELSE [unchanged EXCEPT !.outcome = "none"]

-----------------------------------------------------------------------------
(* check_for_absorption.  The result holds every field the call can write  *)
(* and, for the record of the handler, what the call computed.             *)

\* The clock readings one call can make: each is at least the one before,
\* and no later than MaxDrift after it.
Later(r) == r .. (IF r + MaxDrift < MaxNow THEN r + MaxDrift ELSE MaxNow)

\* The readings of the cooldown check: the clock has not gone back since it
\* was last read.  A call that returns before the check reads nothing.
FirstReading(bk) ==
    IF \/ instrument = None
       \/ Incomplete(bk)
       \/ prev_bid_levels = EmptyDict
       \/ prev_ask_levels = EmptyDict
    THEN {now}
    ELSE now .. MaxNow

\* The readings after a cooldown check that read r1: none in cooldown.
SecondReading(r1) ==
    IF last_trade_timestamp # None
       /\ r1 - Get(last_trade_timestamp) < cooldown_period_seconds
    THEN {r1}
    ELSE Later(r1)

Untouched(outcome) ==
    [prev_bid_levels |-> prev_bid_levels, prev_ask_levels |-> prev_ask_levels,
     last_trade_timestamp |-> last_trade_timestamp,
     trades_taken |-> trades_taken, absorption_events |-> absorption_events,
     submitted |-> submitted, now |-> now, outcome |-> outcome,
     bid_volume |-> None, ask_volume |-> None,
     seconds_since_last_trade |-> None,
     best_bid |-> None, best_ask |-> None,
     event_time |-> None, prev_check_time |-> None, checked_at |-> None]

\* A faulty cycle that keeps the snapshots it already has.
CheckForAbsorptionEnhancedKeepOld(bk, bid_areas, ask_areas, r1, r2, r3) ==
    IF instrument = None THEN Untouched("no_instrument")
    ELSE IF Incomplete(bk) THEN Untouched("incomplete")
    ELSE
      LET current_bid_levels == ExtractLevelsEnhanced(Take(bk.bids, monitor_levels))
          current_ask_levels == ExtractLevelsEnhanced(Take(bk.asks, monitor_levels))
          first == [Untouched("first_cycle") EXCEPT
                       !.prev_bid_levels = current_bid_levels,
                       !.prev_ask_levels = current_ask_levels]
      IN  IF prev_bid_levels # EmptyDict /\ prev_ask_levels # EmptyDict
          THEN LET bid_absorption ==
                       CalculateLiquidityAbsorption(prev_bid_levels,
                                                    current_bid_levels, bid_areas)
                   ask_absorption ==
                       CalculateLiquidityAbsorption(prev_ask_levels,
                                                    current_ask_levels, ask_areas)
                   act == CheckAndActEnhanced(bid_absorption, ask_absorption,
                                              bk, r1, r2, r3)
               IN  [Untouched("first_cycle") EXCEPT
                       !.last_trade_timestamp = act.last_trade_timestamp,
                       !.trades_taken = act.trades_taken,
                       !.absorption_events = act.absorption_events,
                       !.submitted = act.submitted,
                       !.now = act.now,
                       !.outcome = act.outcome,
                       !.seconds_since_last_trade = act.seconds_since_last_trade,
                       !.checked_at = act.checked_at,
                       !.bid_volume = Some(bid_absorption.volume),
                       !.ask_volume = Some(ask_absorption.volume),
                       !.best_bid = BestBidPrice(bk),
                       !.best_ask = BestAskPrice(bk)]
          ELSE first

\* A faulty cycle that stores the bid snapshot and not the ask snapshot.
CheckForAbsorptionEnhancedBidOnly(bk, bid_areas, ask_areas, r1, r2, r3) ==
    IF instrument = None THEN Untouched("no_instrument")
    ELSE IF Incomplete(bk) THEN Untouched("incomplete")
    ELSE
      LET current_bid_levels == ExtractLevelsEnhanced(Take(bk.bids, monitor_levels))
          current_ask_levels == ExtractLevelsEnhanced(Take(bk.asks, monitor_levels))
          first == [Untouched("first_cycle") EXCEPT
                       !.prev_bid_levels = current_bid_levels]
      IN  IF prev_bid_levels # EmptyDict /\ prev_ask_levels # EmptyDict
          THEN LET bid_absorption ==
                       CalculateLiquidityAbsorption(prev_bid_levels,
                                                    current_bid_levels, bid_areas)
                   ask_absorption ==
                       CalculateLiquidityAbsorption(prev_ask_levels,
                                                    current_ask_levels, ask_areas)
                   act == CheckAndActEnhanced(bid_absorption, ask_absorption,
                                              bk, r1, r2, r3)
               IN  [first EXCEPT
                       !.last_trade_timestamp = act.last_trade_timestamp,
                       !.trades_taken = act.trades_taken,
                       !.absorption_events = act.absorption_events,
                       !.submitted = act.submitted,
                       !.now = act.now,
                       !.outcome = act.outcome,
                       !.seconds_since_last_trade = act.seconds_since_last_trade,
                       !.checked_at = act.checked_at,
                       !.bid_volume = Some(bid_absorption.volume),
                       !.ask_volume = Some(ask_absorption.volume),
                       !.best_bid = BestBidPrice(bk),
                       !.best_ask = BestAskPrice(bk)]
          ELSE first

\* EnhancedAbsorptionStrategy.check_for_absorption.
CheckForAbsorptionEnhanced(bk, bid_areas, ask_areas, r1, r2, r3) ==
    IF instrument = None THEN Untouched("no_instrument")
    ELSE IF Incomplete(bk) THEN Untouched("incomplete")
    ELSE
      LET current_bid_levels == ExtractLevelsEnhanced(Take(bk.bids, monitor_levels))
          current_ask_levels == ExtractLevelsEnhanced(Take(bk.asks, monitor_levels))
          first == [Untouched("first_cycle") EXCEPT
                       !.prev_bid_levels = current_bid_levels,
                       !.prev_ask_levels = current_ask_levels]
      IN  IF prev_bid_levels # EmptyDict /\ prev_ask_levels # EmptyDict
          THEN LET bid_absorption ==
                       CalculateLiquidityAbsorption(prev_bid_levels,
                                                    current_bid_levels, bid_areas)
                   ask_absorption ==
                       CalculateLiquidityAbsorption(prev_ask_levels,
                                                    current_ask_levels, ask_areas)
                   act == CheckAndActEnhanced(bid_absorption, ask_absorption,
                                              bk, r1, r2, r3)
               IN  [first EXCEPT
                       !.last_trade_timestamp = act.last_trade_timestamp,
                       !.trades_taken = act.trades_taken,
                       !.absorption_events = act.absorption_events,
                       !.submitted = act.submitted,
                       !.now = act.now,
                       !.outcome = act.outcome,
                       !.seconds_since_last_trade = act.seconds_since_last_trade,
                       !.checked_at = act.checked_at,
                       !.bid_volume = Some(bid_absorption.volume),
                       !.ask_volume = Some(ask_absorption.volume),
                       !.best_bid = BestBidPrice(bk),
                       !.best_ask = BestAskPrice(bk)]
          ELSE first

\* A faulty cycle that computes absorption and decides without a previous
\* snapshot.
CheckForAbsorptionAbsorptionNoFirst(bk, r1, r3) ==
    IF instrument = None THEN Untouched("no_instrument")
    ELSE IF ~bk.cached THEN Untouched("no_book")
    ELSE IF bk.bids = << >> \/ bk.asks = << >> THEN Untouched("incomplete")
    ELSE
      LET current_bid_levels == ExtractLevelsAbsorption(Take(bk.bids, monitor_levels))
          current_ask_levels == ExtractLevelsAbsorption(Take(bk.asks, monitor_levels))
          first == [Untouched("first_cycle") EXCEPT
                       !.prev_bid_levels = current_bid_levels,
                       !.prev_ask_levels = current_ask_levels]
      IN  IF TRUE
          THEN LET bid_absorption ==
                       CalculateAbsorption(prev_bid_levels, current_bid_levels)
                   ask_absorption ==
                       CalculateAbsorption(prev_ask_levels, current_ask_levels)
                   act == CheckAndActAbsorption(bid_absorption, ask_absorption,
                                                bk, r1, r3)
               IN  [first EXCEPT
                       !.last_trade_timestamp = act.last_trade_timestamp,
                       !.submitted = act.submitted,
                       !.now = act.now,
                       !.outcome = act.outcome,
                       !.seconds_since_last_trade = act.seconds_since_last_trade,
                       !.checked_at = act.checked_at,
                       !.bid_volume = Some(bid_absorption),
                       !.ask_volume = Some(ask_absorption),
                       !.best_bid = BestBidPrice(bk),
                       !.best_ask = BestAskPrice(bk)]
          ELSE first

\* A faulty cycle that keeps its snapshots while the cooldown lasts.
CheckForAbsorptionAbsorptionHeld(bk, r1, r3) ==
    IF instrument = None THEN Untouched("no_instrument")
    ELSE IF ~bk.cached THEN Untouched("no_book")
    ELSE IF bk.bids = << >> \/ bk.asks = << >> THEN Untouched("incomplete")
    ELSE
      LET current_bid_levels == ExtractLevelsAbsorption(Take(bk.bids, monitor_levels))
          current_ask_levels == ExtractLevelsAbsorption(Take(bk.asks, monitor_levels))
          first == [Untouched("first_cycle") EXCEPT
                       !.prev_bid_levels = current_bid_levels,
                       !.prev_ask_levels = current_ask_levels]
      IN  IF prev_bid_levels # EmptyDict /\ prev_ask_levels # EmptyDict
          THEN LET bid_absorption ==
                       CalculateAbsorption(prev_bid_levels, current_bid_levels)
                   ask_absorption ==
                       CalculateAbsorption(prev_ask_levels, current_ask_levels)
                   act == CheckAndActAbsorption(bid_absorption, ask_absorption,
                                                bk, r1, r3)
               IN  [(IF act.outcome = "cooldown"
                     THEN Untouched("first_cycle") ELSE first) EXCEPT
                       !.last_trade_timestamp = act.last_trade_timestamp,
                       !.submitted = act.submitted,
                       !.now = act.now,
                       !.outcome = act.outcome,
                       !.seconds_since_last_trade = act.seconds_since_last_trade,
                       !.checked_at = act.checked_at,
                       !.bid_volume = Some(bid_absorption),
                       !.ask_volume = Some(ask_absorption),
                       !.best_bid = BestBidPrice(bk),
                       !.best_ask = BestAskPrice(bk)]
          ELSE first

\* AbsorptionStrategy.check_for_absorption.
CheckForAbsorptionAbsorption(bk, r1, r3) ==
    IF instrument = None THEN Untouched("no_instrument")
    ELSE IF ~bk.cached THEN Untouched("no_book")
    ELSE IF bk.bids = << >> \/ bk.asks = << >> THEN Untouched("incomplete")
    ELSE
      LET current_bid_levels == ExtractLevelsAbsorption(Take(bk.bids, monitor_levels))
          current_ask_levels == ExtractLevelsAbsorption(Take(bk.asks, monitor_levels))
          first == [Untouched("first_cycle") EXCEPT
                       !.prev_bid_levels = current_bid_levels,
                       !.prev_ask_levels = current_ask_levels]
      IN  IF prev_bid_levels # EmptyDict /\ prev_ask_levels # EmptyDict
          THEN LET bid_absorption ==
                       CalculateAbsorption(prev_bid_levels, current_bid_levels)
                   ask_absorption ==
                       CalculateAbsorption(prev_ask_levels, current_ask_levels)
                   act == CheckAndActAbsorption(bid_absorption, ask_absorption,
                                                bk, r1, r3)
               IN  [first EXCEPT
                       !.last_trade_timestamp = act.last_trade_timestamp,
                       !.submitted = act.submitted,
                       !.now = act.now,
                       !.outcome = act.outcome,
                       !.seconds_since_last_trade = act.seconds_since_last_trade,
                       !.checked_at = act.checked_at,
                       !.bid_volume = Some(bid_absorption),
                       !.ask_volume = Some(ask_absorption),
                       !.best_bid = BestBidPrice(bk),
                       !.best_ask = BestAskPrice(bk)]
          ELSE first

-----------------------------------------------------------------------------
(* The strategy as the framework drives it.                                *)

Variants == {"Enhanced", "Absorption"}

\* deltas.deltas, as the list of the ts_event of its deltas.
Deltas == {<< >>} \cup {<< t >> : t \in 0 .. MaxTs}

\* The record of a handler that ran.
Ran(handler, res) ==
    [handler |-> handler, outcome |-> res.outcome,
     bid_volume |-> res.bid_volume, ask_volume |-> res.ask_volume,
     seconds_since_last_trade |-> res.seconds_since_last_trade,
     best_bid |-> res.best_bid, best_ask |-> res.best_ask,
     event_time |-> res.event_time, prev_check_time |-> res.prev_check_time,
     checked_at |-> res.checked_at,
     orders |-> Len(res.submitted) - Len(submitted)]

InitStrategy ==
    /\ variant \in Variants
    /\ instrument = None
    /\ now = 0
    /\ prev_bid_levels = EmptyDict
    /\ prev_ask_levels = EmptyDict
    /\ last_trade_timestamp = None
    /\ bid_liquidity_areas = << >>
    /\ ask_liquidity_areas = << >>
    /\ absorption_events = << >>
    /\ trades_taken = 0
    /\ last_check_time = None
    /\ lifecycle = "READY"
    /\ subscriptions = {}
    /\ stop_requests = {}
    /\ submitted = << >>
    /\ last = Ran("none", Untouched("none"))
    /\ taker = None

\* on_stop of the instantiated class: the feeds and the requests after it.
OnStopEffect(subs, reqs) ==
    IF variant = "Absorption" /\ instrument # None
    THEN [subscriptions |-> subs \ {"order_book_deltas"},
          stop_requests |-> reqs \cup {"cancel_all_orders", "close_all_positions"}]
    ELSE [subscriptions |-> subs, stop_requests |-> reqs]

\* A faulty on_start that subscribes before it looks for the instrument.
OnStartSubscribeFirst ==
    /\ lifecycle = "READY"
    /\ \E found \in BOOLEAN :
          IF found
          THEN /\ instrument' = Some("instrument")
               /\ subscriptions' = IF variant = "Enhanced"
                                   THEN {"order_book_deltas", "trade_ticks"}
                                   ELSE {"order_book_deltas"}
               /\ \E r \in now .. MaxNow :
                     /\ last_trade_timestamp' = Some(r)
                     /\ now' = r
               /\ lifecycle' = "RUNNING"
               /\ last' = Ran("on_start", Untouched("started"))
               /\ UNCHANGED stop_requests
          ELSE /\ instrument' = None
               /\ lifecycle' = "STOPPED"
               /\ last' = Ran("on_start", Untouched("no_instrument"))
               /\ subscriptions' = {"order_book_deltas"}
               /\ UNCHANGED << stop_requests, last_trade_timestamp, now >>
    /\ UNCHANGED << taker, variant, prev_bid_levels, prev_ask_levels,
                    bid_liquidity_areas, ask_liquidity_areas, absorption_events,
                    trades_taken, last_check_time, submitted, call >>

\* A faulty on_start that stamps time 0, not the start time, as the last
\* trade.
OnStartEpoch ==
    /\ lifecycle = "READY"
    /\ \E found \in BOOLEAN :
          IF found
          THEN /\ instrument' = Some("instrument")
               /\ subscriptions' = IF variant = "Enhanced"
                                   THEN {"order_book_deltas", "trade_ticks"}
                                   ELSE {"order_book_deltas"}
               /\ \E r \in now .. MaxNow :
                     /\ last_trade_timestamp' = Some(0)
                     /\ now' = r
               /\ lifecycle' = "RUNNING"
               /\ last' = Ran("on_start", Untouched("started"))
               /\ UNCHANGED stop_requests
          ELSE /\ instrument' = None
               /\ lifecycle' = "STOPPED"
               /\ last' = Ran("on_start", Untouched("no_instrument"))
               /\ UNCHANGED << subscriptions, stop_requests,
                               last_trade_timestamp, now >>
    /\ UNCHANGED << taker, variant, prev_bid_levels, prev_ask_levels,
                    bid_liquidity_areas, ask_liquidity_areas, absorption_events,
                    trades_taken, last_check_time, submitted, call >>

\* on_start; found says whether the cache holds the instrument.  A missing
\* instrument makes the strategy stop itself, which runs on_stop.
OnStart ==
    /\ lifecycle = "READY"
    /\ \E found \in BOOLEAN :
          IF found
          THEN /\ instrument' = Some("instrument")
               /\ subscriptions' = IF variant = "Enhanced"
                                   THEN {"order_book_deltas", "trade_ticks"}
                                   ELSE {"order_book_deltas"}
               /\ \E r \in now .. MaxNow :
                     /\ last_trade_timestamp' = Some(r)
                     /\ now' = r
               /\ lifecycle' = "RUNNING"
               /\ last' = Ran("on_start", Untouched("started"))
               /\ UNCHANGED stop_requests
          ELSE /\ instrument' = None
               /\ lifecycle' = "STOPPED"
               /\ last' = Ran("on_start", Untouched("no_instrument"))
               /\ UNCHANGED << subscriptions, stop_requests,
                               last_trade_timestamp, now >>
    /\ UNCHANGED << taker, variant, prev_bid_levels, prev_ask_levels,
                    bid_liquidity_areas, ask_liquidity_areas, absorption_events,
                    trades_taken, last_check_time, submitted, call >>

OnStop ==
    /\ lifecycle = "RUNNING"
    /\ lifecycle' = "STOPPED"
    /\ subscriptions' = OnStopEffect(subscriptions, stop_requests).subscriptions
    /\ stop_requests' = OnStopEffect(subscriptions, stop_requests).stop_requests
    /\ last' = Ran("on_stop", Untouched("stopped"))
    /\ UNCHANGED << taker, variant, instrument, now, prev_bid_levels, prev_ask_levels,
                    last_trade_timestamp, bid_liquidity_areas,
                    ask_liquidity_areas, absorption_events, trades_taken,
                    last_check_time, submitted, call >>

\* The framework hands events to a running strategy; what still reaches a
\* strategy that stopped itself in on_start is handled too.
Delivered == lifecycle = "RUNNING" \/ (lifecycle = "STOPPED" /\ instrument = None)

\* A faulty on_trade_tick that drops the previous snapshots.
OnTradeTickForgetting ==
    /\ variant = "Enhanced"
    /\ Delivered
    /\ prev_bid_levels' = EmptyDict
    /\ prev_ask_levels' = EmptyDict
    /\ last' = Ran("on_trade_tick", Untouched("logged"))
    /\ UNCHANGED << taker, variant, instrument, now,
                    last_trade_timestamp, bid_liquidity_areas,
                    ask_liquidity_areas, absorption_events, trades_taken,
                    last_check_time, lifecycle, subscriptions, stop_requests,
                    submitted, call >>

\* EnhancedAbsorptionStrategy.on_trade_tick: a log line.
OnTradeTick ==
    /\ variant = "Enhanced"
    /\ Delivered
    /\ last' = Ran("on_trade_tick", Untouched("logged"))
    /\ UNCHANGED << taker, variant, instrument, now, prev_bid_levels, prev_ask_levels,
                    last_trade_timestamp, bid_liquidity_areas,
                    ask_liquidity_areas, absorption_events, trades_taken,
                    last_check_time, lifecycle, subscriptions, stop_requests,
                    submitted, call >>

\* What the framework reports of an order that was submitted.
OrderOutcomes == {"filled", "killed", "rejected"}

\* A faulty strategy that hands a rejected order in again.
OnOrderEventRetrying ==
    /\ Delivered
    /\ submitted # << >>
    /\ \E outcome \in OrderOutcomes :
          LET again == IF outcome = "rejected" /\ Len(submitted) < MaxSubmitted
                       THEN Append(submitted, submitted[Len(submitted)])
                       ELSE submitted
          IN  /\ submitted' = again
              /\ last' = Ran("on_order_event",
                             [Untouched(outcome) EXCEPT !.submitted = again])
    /\ UNCHANGED << taker, variant, instrument, now, prev_bid_levels, prev_ask_levels,
                    last_trade_timestamp, bid_liquidity_areas,
                    ask_liquidity_areas, absorption_events, trades_taken,
                    last_check_time, lifecycle, subscriptions, stop_requests,
                    call >>

\* The outcome of a submitted order reaches the strategy.  Neither class
\* defines a handler for order events, so the inherited one runs, which does
\* nothing.
OnOrderEvent ==
    /\ Delivered
    /\ submitted # << >>
    /\ \E outcome \in OrderOutcomes :
          last' = Ran("on_order_event", Untouched(outcome))
    /\ UNCHANGED << taker, variant, instrument, now, prev_bid_levels, prev_ask_levels,
                    last_trade_timestamp, bid_liquidity_areas,
                    ask_liquidity_areas, absorption_events, trades_taken,
                    last_check_time, lifecycle, subscriptions, stop_requests,
                    submitted, call >>

\* The fields a cycle writes, from the result res of check_for_absorption.
Commit(handler, res) ==
    /\ Len(res.absorption_events) <= MaxLog
    /\ Len(res.submitted) <= MaxSubmitted
    /\ prev_bid_levels' = res.prev_bid_levels
    /\ prev_ask_levels' = res.prev_ask_levels
    /\ last_trade_timestamp' = res.last_trade_timestamp
    /\ trades_taken' = res.trades_taken
    /\ absorption_events' = res.absorption_events
    /\ submitted' = res.submitted
    /\ now' = res.now
    /\ last' = Ran(handler, res)

\* A faulty rate limit that lets every event through.
RateLimitPassedAlways(current_event_time) == TRUE

\* The rate limit of on_order_book_deltas.
RateLimitPassed(current_event_time) ==
    \/ last_check_time = None
    \/ current_event_time - Get(last_check_time) >= OneSecond

\* What the handler read of an event that carries deltas: the ts_event of
\* the first delta and self._last_check_time.
Timed(res, current_event_time) ==
    [res EXCEPT !.event_time = Some(current_event_time),
                !.prev_check_time = last_check_time]

\* EnhancedAbsorptionStrategy.on_order_book_deltas.
OnOrderBookDeltasEnhanced ==
    /\ variant = "Enhanced"
    /\ Delivered
    /\ \E deltas \in Deltas :
          IF deltas = << >>
          THEN /\ last' = Ran("on_order_book_deltas", Untouched("no_deltas"))
               /\ UNCHANGED << prev_bid_levels, prev_ask_levels,
                               last_trade_timestamp, trades_taken,
                               absorption_events, submitted, now,
                               bid_liquidity_areas, ask_liquidity_areas,
                               last_check_time >>
          ELSE LET current_event_time == deltas[1]
               IN  IF RateLimitPassed(current_event_time)
                   THEN \E bk \in Books :
                        \E r1 \in FirstReading(bk) :
                        \E r2 \in SecondReading(r1) : \E r3 \in Later(r2) :
                           LET areas == IdentifyLiquidityAreas(bk, bid_liquidity_areas,
                                                               ask_liquidity_areas)
                           IN  /\ bid_liquidity_areas' = areas.bid
                               /\ ask_liquidity_areas' = areas.ask
                               /\ Commit("on_order_book_deltas",
                                         Timed(CheckForAbsorptionEnhanced(bk, areas.bid,
                                                                          areas.ask,
                                                                          r1, r2, r3),
                                               current_event_time))
                               /\ last_check_time' = Some(current_event_time)
                   ELSE /\ last' = Ran("on_order_book_deltas",
                                       Timed(Untouched("rate_limited"),
                                             current_event_time))
                        /\ UNCHANGED << prev_bid_levels, prev_ask_levels,
                                        last_trade_timestamp, trades_taken,
                                        absorption_events, submitted, now,
                                        bid_liquidity_areas, ask_liquidity_areas,
                                        last_check_time >>
    /\ UNCHANGED << taker, variant, instrument, lifecycle, subscriptions, stop_requests, call >>

\* AbsorptionStrategy.on_order_book_deltas.
OnOrderBookDeltasAbsorption ==
    /\ variant = "Absorption"
    /\ Delivered
    /\ \E bk \in Books : \E r1 \in FirstReading(bk) : \E r3 \in SecondReading(r1) :
          Commit("on_order_book_deltas", CheckForAbsorptionAbsorption(bk, r1, r3))
    /\ UNCHANGED << taker, variant, instrument, lifecycle, subscriptions, stop_requests,
                    bid_liquidity_areas, ask_liquidity_areas, last_check_time, call >>

Init == InitStrategy /\ InitCall

Next ==
    \/ OnStart
    \/ OnOrderBookDeltasEnhanced
    \/ OnOrderBookDeltasAbsorption
    \/ OnTradeTick
    \/ OnOrderEvent
    \/ OnStop

Spec == Init /\ [][Next]_vars

-----------------------------------------------------------------------------
(* The helpers called on their own.                                        *)

InitHelpers ==
    /\ InitStrategy
    /\ InitCall

\* identify_liquidity_areas on a book one side of which holds up to
\* NumPrices levels and the other at most one level of one order; old is
\* what both lists held.
CallIdentifyLiquidityAreas ==
    /\ call.fn = "none"
    /\ \E side \in Sides : \E levels \in HelperLevels(side, NumPrices) :
       \E other \in {<< >>} \cup {<< Level(NumPrices, << n >>) >> : n \in 1 .. MaxOrderSize} :
       \E cached \in BOOLEAN : \E old \in {<< >>, << NumPrices >>} :
          LET bk == IF ~cached THEN NoBook
                    ELSE IF side = "bid"
                         THEN [cached |-> TRUE, bids |-> levels, asks |-> other]
                         ELSE [cached |-> TRUE, bids |-> other, asks |-> levels]
          IN  call' = [fn |-> "identify_liquidity_areas", book |-> bk,
                       old |-> old,
                       result |-> IdentifyLiquidityAreas(bk, old, old)]
    /\ UNCHANGED strategy_vars

\* The snapshot check_for_absorption captures of one side of a book that
\* holds up to NumPrices levels: _extract_levels of the first monitor_levels.
CallCaptureSnapshot ==
    /\ call.fn = "none"
    /\ \E side \in Sides : \E levels \in HelperLevels(side, NumPrices) :
          call' = [fn |-> "capture_snapshot", side |-> side, levels |-> levels,
                   result |-> IF variant = "Enhanced"
                              THEN ExtractLevelsEnhanced(Take(levels, monitor_levels))
                              ELSE ExtractLevelsAbsorption(Take(levels, monitor_levels))]
    /\ UNCHANGED strategy_vars

\* A faulty cycle whose liquidity areas are read from every level of the
\* side while the snapshot is cut at monitor_levels.
CycleOfSideUncutAreas(prev_levels, levels) ==
    LET areas == LiquidityAreasOf(levels)
        current_levels == ExtractLevelsEnhanced(Take(levels, monitor_levels))
    IN  [areas |-> areas, current |-> current_levels,
         result |-> CalculateLiquidityAbsorption(prev_levels, current_levels, areas)]

\* One side of a cycle of the Enhanced strategy: identify_liquidity_areas,
\* then check_for_absorption, read the same levels of the same book.
CycleOfSide(prev_levels, levels) ==
    LET areas == LiquidityAreasOf(Take(levels, monitor_levels))
        current_levels == ExtractLevelsEnhanced(Take(levels, monitor_levels))
    IN  [areas |-> areas, current |-> current_levels,
         result |-> CalculateLiquidityAbsorption(prev_levels, current_levels, areas)]

\* The sides of up to NumPrices levels of one order of size 1..MaxBookSize.
CycleLevels(side) == LevelLists(side, NumPrices, Prices, 1, MaxBookSize)

\* A cycle on the levels of one side, after a cycle that left the snapshot
\* of the levels before.
CallCycleOfSide ==
    /\ call.fn = "none"
    /\ \E side \in Sides : \E before \in CycleLevels(side) \ {<< >>} :
       \E levels \in CycleLevels(side) :
          LET prev == ExtractLevelsEnhanced(Take(before, monitor_levels))
          IN
          call' = [fn |-> "cycle_of_side", side |-> side, prev |-> prev,
                   levels |-> levels, cycle |-> CycleOfSide(prev, levels)]
    /\ UNCHANGED strategy_vars

\* Both calculators on a current snapshot and on the same snapshot with one
\* more price whose quantity is 0.
CallWithZeroQuantity ==
    /\ call.fn = "none"
    /\ \E side \in Sides : \E prev \in Snapshots, cur \in Snapshots :
       \E price \in Prices \ DOMAIN cur : \E areas \in PriceLists(side) :
          LET zero == DictPut(cur, price, 0)
          IN  call' = [fn |-> "with_zero_quantity", side |-> side,
                       prev |-> prev, cur |-> cur, price |-> price,
                       areas |-> areas,
                       absorption |-> CalculateAbsorption(prev, cur),
                       absorption_zero |-> CalculateAbsorption(prev, zero),
                       liquidity |->
                           CalculateLiquidityAbsorption(prev, cur, areas),
                       liquidity_zero |->
                           CalculateLiquidityAbsorption(prev, zero, areas)]
    /\ UNCHANGED strategy_vars

NextHelpers ==
    \/ CallExtractLevelsEnhanced
    \/ CallExtractLevelsAbsorption
    \/ CallCalculateLiquidityAbsorption
    \/ CallCalculateAbsorption
    \/ CallIdentifyLiquidityAreas
    \/ CallWithZeroQuantity
    \/ CallCaptureSnapshot
    \/ CallCycleOfSide

SpecHelpers == InitHelpers /\ [][NextHelpers]_vars

-----------------------------------------------------------------------------
(* _check_and_act_on_absorption called on its own.  check_for_absorption   *)
(* hands it only books with both sides filled; called directly, its book   *)
(* parameter may lack a side.                                              *)

\* The books the parameter can hold: each side empty or one level.
DecisionBooks ==
    {[cached |-> TRUE, bids |-> b, asks |-> a] :
        b \in TopOfBook(BidPrice), a \in TopOfBook(AskPrice)}

\* The volumes a call is given: enough for one volume to exceed twice
\* another that itself exceeds min_absorption_volume.
Volumes == 0 .. 2 * min_absorption_volume + 3

\* The bid_absorption / ask_absorption argument of the Enhanced method.
AbsorptionArg(volume, price) ==
    [volume |-> volume, prices |-> IF volume = 0 THEN << >> ELSE << price >>]

\* One call on a started strategy; call keeps the arguments and the fields
\* as they were before the call.
CallCheckAndActOnAbsorption ==
    /\ call.fn = "none"
    /\ lifecycle = "RUNNING"
    /\ \E bid_volume \in Volumes, ask_volume \in Volumes :
       \E bk \in DecisionBooks :
       \E r1 \in now .. MaxNow : \E r2 \in Later(r1) : \E r3 \in Later(r2) :
          LET act == IF variant = "Enhanced"
                     THEN CheckAndActEnhanced(AbsorptionArg(bid_volume, BidPrice),
                                              AbsorptionArg(ask_volume, AskPrice),
                                              bk, r1, r2, r3)
                     ELSE CheckAndActAbsorption(bid_volume, ask_volume, bk, r1, r3)
          IN  /\ last_trade_timestamp' = act.last_trade_timestamp
              /\ trades_taken' = act.trades_taken
              /\ absorption_events' = act.absorption_events
              /\ submitted' = act.submitted
              /\ now' = act.now
              /\ call' = [fn |-> "check_and_act_on_absorption",
                          bid_volume |-> bid_volume, ask_volume |-> ask_volume,
                          book |-> bk,
                          seconds_since_last_trade |->
                              Get(act.seconds_since_last_trade),
                          last_trade_timestamp |-> last_trade_timestamp,
                          trades_taken |-> trades_taken]
    /\ UNCHANGED << taker, variant, instrument, prev_bid_levels, prev_ask_levels,
                    bid_liquidity_areas, ask_liquidity_areas, last_check_time,
                    lifecycle, subscriptions, stop_requests, last >>

NextDecision ==
    \/ OnStart
    \/ CallCheckAndActOnAbsorption

SpecDecision == Init /\ [][NextDecision]_vars

-----------------------------------------------------------------------------
(* LiquidityTaker, src/edges/liquidity_taker.py.  Clock time is counted in  *)
(* minutes: a datetime is day * MinutesPerDay + minute of the day and its   *)
(* date is the day.  Tick sizes and cvd are whole numbers, on which the     *)
(* float arithmetic of the source is exact.                                 *)

\* A day has MinutesPerDay minutes; the clock reads the minutes of two days.
MinutesPerDay == 3
\* A trade tick has size 1..MaxTickSize; at most MaxDelivered starts and
\* ticks are delivered to one instance.
MaxTickSize == 1
MaxDelivered == 3

\* LiquidityTakerConfig.  session_start_time is the minute of the day that
\* the "HH:MM" string names.
cvd_threshold == 1
price_level_threshold == 1
wait_minutes_after_open == 1
taker_trade_size == 1
session_start_time == 1

MaxClock == 2 * MinutesPerDay - 1

\* datetime.date() of a clock reading.
Date(t) == t \div MinutesPerDay

\* What the clock can read next: it does not run backwards and a day or
\* more can pass between two events.
TakerLater(r) == r .. MaxClock

\* _get_market_open_time
GetMarketOpenTime(session_date) == session_date * MinutesPerDay + session_start_time

\* The instance __init__ builds at clock reading r.  self.traded is not set
\* there.  delivered is the list of the starts and ticks the instance was
\* handed since, each with the date the clock read; it is not a field of
\* the class.
NewTaker(r) ==
    [cvd |-> 0, session_date |-> Date(r),
     market_open_time |-> GetMarketOpenTime(Date(r)),
     traded |-> None, delivered |-> << >>]

\* The trade ticks: with order_side and size, or without order_side.
TickSides == {"BUY", "SELL", "NO_ORDER_SIDE"}
TradeTicks ==
    {[attrs |-> {"order_side", "size"}, order_side |-> s, size |-> n] :
        s \in TickSides, n \in 1 .. MaxTickSize}
    \cup {[attrs |-> {"size"}, size |-> 1]}

\* The asks of the book handed to on_order_book, best first.
TakerAsks == LevelLists("ask", NumPrices, Prices, 1, 1)

\* A faulty on_start that keeps the cvd it had.
TakerStartKeepingCvd(tk, r) ==
    [tk EXCEPT !.session_date = Date(r),
               !.market_open_time = GetMarketOpenTime(Date(r)),
               !.delivered = Append(@, [event |-> "start", date |-> Date(r)])]

\* on_start: the fields after it, r being the clock reading.
TakerStart(tk, r) ==
    [tk EXCEPT !.cvd = 0,
               !.session_date = Date(r),
               !.market_open_time = GetMarketOpenTime(Date(r)),
               !.delivered = Append(@, [event |-> "start", date |-> Date(r)])]

\* A faulty on_trade_tick that resets the session after it counted the tick.
TakerTradeTickResetLast(tk, tick, current_time) ==
    LET current_date == Date(current_time)
        counted ==
            IF {"order_side", "size"} \subseteq tick.attrs
            THEN IF tick.order_side = "BUY" THEN tk.cvd + tick.size
                 ELSE IF tick.order_side = "SELL" THEN tk.cvd - tick.size
                 ELSE tk.cvd
            ELSE tk.cvd
        reset == current_date # tk.session_date
    IN  [cvd |-> IF reset THEN 0 ELSE counted,
         session_date |-> current_date,
         market_open_time |-> IF reset THEN GetMarketOpenTime(current_date)
                                       ELSE tk.market_open_time,
         traded |-> IF reset THEN Some(FALSE) ELSE tk.traded,
         delivered |-> Append(tk.delivered,
                              [event |-> "tick", date |-> current_date,
                               tick |-> tick])]

\* on_trade_tick: the fields after it, current_time being the clock reading.
TakerTradeTick(tk, tick, current_time) ==
    LET current_date == Date(current_time)
        reset == current_date # tk.session_date
        cvd == IF reset THEN 0 ELSE tk.cvd
    IN  [cvd |-> IF {"order_side", "size"} \subseteq tick.attrs
                 THEN IF tick.order_side = "BUY" THEN cvd + tick.size
                      ELSE IF tick.order_side = "SELL" THEN cvd - tick.size
                      ELSE cvd
                 ELSE cvd,
         session_date |-> current_date,
         market_open_time |-> IF reset THEN GetMarketOpenTime(current_date)
                                       ELSE tk.market_open_time,
         traded |-> IF reset THEN Some(FALSE) ELSE tk.traded,
         delivered |-> Append(tk.delivered,
                              [event |-> "tick", date |-> current_date,
                               tick |-> tick])]

\* The loop over order_book.asks(): the price of the first level priced
\* above price_level_threshold, or None.
RECURSIVE TargetPrice(_)
TargetPrice(asks) ==
    IF asks = << >> THEN None
    ELSE IF asks[1].price > price_level_threshold THEN Some(asks[1].price)
    ELSE TargetPrice(Tail(asks))

\* order_factory.market(instrument_id=..., order_side=..., quantity=...,
\* time_in_force=TimeInForce.FOK)
MarketOrder(side, quantity) ==
    [order_type |-> "MARKET", order_side |-> side, quantity |-> quantity,
     time_in_force |-> "FOK"]

\* A faulty wait check that lets every book update through.
WaitingOff(tk, current_time) == FALSE

\* current_time < self.market_open_time + timedelta(minutes=wait_minutes_after_open)
Waiting(tk, current_time) ==
    current_time < tk.market_open_time + wait_minutes_after_open

\* A faulty on_order_book that trades once per session.
TakerOrderBookOnce(tk, log, asks, current_time) ==
    LET target_price == TargetPrice(asks)
        stay == [submitted |-> log, traded |-> tk.traded]
        send(side) ==
            [submitted |-> SubmitOrder(log, MarketOrder(side, taker_trade_size),
                                       current_time),
             traded |-> Some(TRUE)]
    IN  IF Waiting(tk, current_time) THEN stay
        ELSE IF target_price = None THEN stay
        ELSE IF tk.traded = Some(TRUE) THEN stay
        ELSE IF tk.cvd > cvd_threshold THEN send("BUY")
        ELSE IF tk.cvd < cvd_threshold THEN send("SELL")
        ELSE stay

\* on_order_book: the orders handed to submit_order and self.traded after
\* it, current_time being the clock reading.
TakerOrderBook(tk, log, asks, current_time) ==
    LET target_price == TargetPrice(asks)
        stay == [submitted |-> log, traded |-> tk.traded]
        send(side) ==
            [submitted |-> SubmitOrder(log, MarketOrder(side, taker_trade_size),
                                       current_time),
             traded |-> Some(TRUE)]
    IN  IF Waiting(tk, current_time) THEN stay
        ELSE IF target_price = None THEN stay
        ELSE IF tk.cvd > cvd_threshold THEN send("BUY")
        ELSE IF tk.cvd < cvd_threshold THEN send("SELL")
        ELSE stay

InitTaker ==
    /\ variant = "LiquidityTaker"
    /\ instrument = None
    /\ now = 0
    /\ prev_bid_levels = EmptyDict
    /\ prev_ask_levels = EmptyDict
    /\ last_trade_timestamp = None
    /\ bid_liquidity_areas = << >>
    /\ ask_liquidity_areas = << >>
    /\ absorption_events = << >>
    /\ trades_taken = 0
    /\ last_check_time = None
    /\ lifecycle = "READY"
    /\ subscriptions = {}
    /\ stop_requests = {}
    /\ submitted = << >>
    /\ last = [handler |-> "none"]
    /\ call = [fn |-> "none"]
    /\ taker = NewTaker(0)

taker_unused == << variant, instrument, prev_bid_levels, prev_ask_levels,
                   last_trade_timestamp, bid_liquidity_areas,
                   ask_liquidity_areas, absorption_events, trades_taken,
                   last_check_time, stop_requests, call >>

\* The framework starts a strategy that is ready or was stopped.
TakerOnStart ==
    /\ lifecycle \in {"READY", "STOPPED"}
    /\ Len(taker.delivered) < MaxDelivered
    /\ \E r \in TakerLater(now) :
          /\ now' = r
          /\ taker' = TakerStart(taker, r)
          /\ last' = [handler |-> "on_start", clock |-> r]
    /\ lifecycle' = "RUNNING"
    /\ subscriptions' = {"trade_ticks", "order_book_at_interval"}
    /\ UNCHANGED << taker_unused, submitted >>

TakerOnTradeTick ==
    /\ lifecycle = "RUNNING"
    /\ Len(taker.delivered) < MaxDelivered
    /\ \E tick \in TradeTicks : \E current_time \in TakerLater(now) :
          /\ now' = current_time
          /\ taker' = TakerTradeTick(taker, tick, current_time)
          /\ last' = [handler |-> "on_trade_tick", clock |-> current_time,
                      tick |-> tick]
    /\ UNCHANGED << taker_unused, lifecycle, subscriptions, submitted >>

TakerOnOrderBook ==
    /\ lifecycle = "RUNNING"
    /\ Len(submitted) < MaxSubmitted
    /\ \E asks \in TakerAsks : \E current_time \in TakerLater(now) :
          LET res == TakerOrderBook(taker, submitted, asks, current_time)
          IN  /\ now' = current_time
              /\ submitted' = res.submitted
              /\ taker' = [taker EXCEPT !.traded = res.traded]
              /\ last' = [handler |-> "on_order_book", clock |-> current_time,
                          asks |-> asks]
    /\ UNCHANGED << taker_unused, lifecycle, subscriptions >>

\* on_stop only logs.
TakerOnStop ==
    /\ lifecycle = "RUNNING"
    /\ lifecycle' = "STOPPED"
    /\ last' = [handler |-> "on_stop"]
    /\ UNCHANGED << taker_unused, now, subscriptions, submitted, taker >>

NextTaker ==
    \/ TakerOnStart
    \/ TakerOnTradeTick
    \/ TakerOnOrderBook
    \/ TakerOnStop

SpecTaker == InitTaker /\ [][NextTaker]_vars

-----------------------------------------------------------------------------
(* Properties of the running strategy (Spec).  last is the record of the   *)
(* handler that ran last; its seconds_since_last_trade is set exactly when *)
(* the cycle reached the cooldown check, and checked_at is then the clock  *)
(* reading of that check.  The clock time of a submission   *)
(* is the reading the handler stamps on it, the last one before            *)
(* submit_order.                                                           *)

\* C1: in both strategies an evaluation made less than
\* cooldown_period_seconds after the last trade timestamp submits no order,
\* whatever the two absorption volumes are; hence any two consecutive
\* submissions of an instance are at least cooldown_period_seconds apart.
C1_Cooldown ==
    /\ (/\ last.seconds_since_last_trade # None
        /\ Get(last.seconds_since_last_trade) < cooldown_period_seconds)
       => last.orders = 0
    /\ \A i \in 1 .. Len(submitted) - 1 :
          submitted[i + 1].ts - submitted[i].ts >= cooldown_period_seconds

\* Two orders went out, and the last evaluation fell in the cooldown with a
\* bid volume that meets the sell rule.
C1_Witness ==
    /\ Len(submitted) = 2
    /\ last.seconds_since_last_trade # None
    /\ Get(last.seconds_since_last_trade) < cooldown_period_seconds
    /\ Get(last.bid_volume) > min_absorption_volume
    /\ Get(last.ask_volume) = 0
    /\ last.orders = 0

\* C2: in both strategies one handled book update submits at most one
\* order: never a SELL and a BUY, never two orders of one side.
C2_AtMostOneOrderPerCycle ==
    /\ last.orders <= 1
    /\ last.orders = 1 => last.outcome \in {"sell", "buy"}

\* The last cycle submitted an order after an earlier one had.
C2_Witness ==
    /\ last.handler = "on_order_book_deltas"
    /\ last.orders = 1
    /\ Len(submitted) = 2

\* C3: an evaluation outside the cooldown (a complete book has both best
\* prices) submits a SELL iff bid_volume > min_absorption_volume and
\* bid_volume > ask_volume * k; otherwise a BUY iff ask_volume >
\* min_absorption_volume and ask_volume > bid_volume * k; otherwise nothing.
\* Every comparison is strict; k is 1.5 (Enhanced) and 2 (Absorption).
C3_DecisionRule ==
    (/\ last.seconds_since_last_trade # None
     /\ Get(last.seconds_since_last_trade) >= cooldown_period_seconds)
    => LET bid_volume == Get(last.bid_volume)
           ask_volume == Get(last.ask_volume)
           sell == /\ bid_volume > min_absorption_volume
                   /\ IF variant = "Enhanced"
                      THEN 2 * bid_volume > 3 * ask_volume
                      ELSE bid_volume > 2 * ask_volume
           buy  == /\ ask_volume > min_absorption_volume
                   /\ IF variant = "Enhanced"
                      THEN 2 * ask_volume > 3 * bid_volume
                      ELSE ask_volume > 2 * bid_volume
       IN  IF sell
           THEN /\ last.orders = 1
                /\ submitted[Len(submitted)].order.order_side = "SELL"
           ELSE IF buy
                THEN /\ last.orders = 1
                     /\ submitted[Len(submitted)].order.order_side = "BUY"
                ELSE last.orders = 0

\* An evaluation outside the cooldown whose bid volume passes the threshold
\* and equals k times the ask volume: no order.
C3_Witness ==
    /\ last.seconds_since_last_trade # None
    /\ Get(last.seconds_since_last_trade) >= cooldown_period_seconds
    /\ Get(last.bid_volume) > min_absorption_volume
    /\ Get(last.ask_volume) > 0
    /\ IF variant = "Enhanced"
       THEN 2 * Get(last.bid_volume) = 3 * Get(last.ask_volume)
       ELSE Get(last.bid_volume) = 2 * Get(last.ask_volume)
    /\ last.orders = 0

\* C11: every order the two strategies submit is a limit order for the
\* strategy's instrument with time in force FOK and post_only off; a SELL
\* carries the best bid and a BUY the best ask of the book the same cycle
\* read.
C11_OrderShape ==
    /\ \A i \in DOMAIN submitted :
          /\ submitted[i].order.instrument_id = Get(instrument)
          /\ submitted[i].order.time_in_force = "FOK"
          /\ submitted[i].order.post_only = FALSE
          /\ submitted[i].order.order_side \in {"SELL", "BUY"}
    /\ last.orders = 1 =>
          LET order == submitted[Len(submitted)].order
          IN  /\ order.order_side = "SELL" => last.best_bid = Some(order.price)
              /\ order.order_side = "BUY" => last.best_ask = Some(order.price)

\* A SELL went out at the best bid and then the last cycle sent a BUY at the
\* best ask.
C11_Witness ==
    /\ Len(submitted) = 2
    /\ submitted[1].order.order_side = "SELL"
    /\ last.orders = 1
    /\ submitted[2].order.order_side = "BUY"
    /\ last.best_ask = Some(submitted[2].order.price)
    /\ submitted[1].order.price < submitted[2].order.price

\* C12: EnhancedAbsorptionStrategy always submits the quantity trade_size;
\* AbsorptionStrategy is to submit the quantity min(volume of the triggering
\* side * trade_pct_of_absorption, max_trade_size), which is to be greater
\* than 0 and at most max_trade_size on every order.
C12_OrderSizing ==
    /\ \A i \in DOMAIN submitted :
          IF variant = "Enhanced"
          THEN submitted[i].order.quantity = trade_size
          ELSE /\ submitted[i].order.quantity > 0
               /\ submitted[i].order.quantity <= max_trade_size
    /\ (variant = "Absorption" /\ last.orders = 1) =>
          LET order == submitted[Len(submitted)].order
              volume == IF order.order_side = "SELL" THEN Get(last.bid_volume)
                                                      ELSE Get(last.ask_volume)
          IN  order.quantity * TradePctDen =
                 IF volume * TradePctNum < max_trade_size * TradePctDen
                 THEN volume * TradePctNum
                 ELSE max_trade_size * TradePctDen

\* The last handler was an on_order_book_deltas of the Enhanced strategy
\* that ran identify_liquidity_areas and check_for_absorption.
CycleTriggered ==
    /\ variant = "Enhanced"
    /\ last.handler = "on_order_book_deltas"
    /\ last.outcome \notin {"no_deltas", "rate_limited"}

\* The fields of the strategy, without the record of the last handler.
strategy_fields ==
    << instrument, prev_bid_levels, prev_ask_levels, last_trade_timestamp,
       bid_liquidity_areas, ask_liquidity_areas, absorption_events,
       trades_taken, last_check_time, lifecycle, subscriptions,
       stop_requests, submitted >>

\* C13: in EnhancedAbsorptionStrategy a book update triggers a cycle only if
\* none was triggered before or the ts_event of its first delta is at least
\* 1 s after that of the event that triggered the last cycle, whose ts_event
\* _last_check_time holds; so two consecutive cycles are at least 1 s apart
\* in event time.  An event without deltas triggers no cycle and changes no
\* field.
C13_RateLimitEnhanced ==
    /\ [](CycleTriggered =>
             /\ \/ last.prev_check_time = None
                \/ Get(last.event_time) - Get(last.prev_check_time) >= OneSecond
             /\ last_check_time = last.event_time)
    /\ []((variant = "Enhanced" /\ last.outcome = "rate_limited") =>
             /\ last.prev_check_time # None
             /\ Get(last.event_time) - Get(last.prev_check_time) < OneSecond
             /\ last_check_time = last.prev_check_time)
    /\ [][last'.outcome = "no_deltas" => UNCHANGED << strategy_fields, now >>]_vars

\* A second cycle ran exactly 1 s of event time after the first, and an
\* event then came too early for a third.
C13_Witness ==
    /\ variant = "Enhanced"
    /\ last.outcome = "rate_limited"
    /\ last.prev_check_time = Some(OneSecond)
    /\ last.event_time = Some(OneSecond)
    /\ Len(absorption_events) > 0

\* C14: the evaluations of AbsorptionStrategy are to be rate-limited: two
\* consecutive evaluation cycles (snapshot capture plus absorption
\* calculation) are to be at least 1 s apart.
C14_RateLimitAbsorption ==
    [][(/\ variant = "Absorption"
        /\ last.checked_at # None
        /\ last'.checked_at # None)
       => Get(last'.checked_at) - Get(last.checked_at) >= OneSecond]_vars

\* C15: when EnhancedAbsorptionStrategy submits an order, the evaluation has
\* recorded one event (its timestamp, both side volumes, both lists of
\* affected prices), sets the last trade timestamp to the clock reading it
\* takes then and adds exactly 1 to _trades_taken; so _trades_taken always
\* equals the number of orders submitted.
C15_EmitBookkeeping ==
    /\ [](variant = "Enhanced" => trades_taken = Len(submitted))
    /\ []((variant = "Enhanced" /\ last.orders = 1) =>
             LET event == absorption_events[Len(absorption_events)]
             IN  /\ last_trade_timestamp = Some(now)
                 /\ last_trade_timestamp = Some(submitted[Len(submitted)].ts)
                 /\ event.bid_absorption = Get(last.bid_volume)
                 /\ event.ask_absorption = Get(last.ask_volume)
                 /\ event.timestamp >= Get(last.checked_at)
                 /\ event.timestamp <= now
                 /\ Range(event.bid_prices) \subseteq
                       {Str(p) : p \in Range(bid_liquidity_areas)}
                 /\ Range(event.ask_prices) \subseteq
                       {Str(p) : p \in Range(ask_liquidity_areas)}
                 /\ (event.bid_prices # << >>) = (event.bid_absorption > 0)
                 /\ (event.ask_prices # << >>) = (event.ask_absorption > 0))
    /\ [][(variant = "Enhanced" /\ last'.orders = 1) =>
             /\ Len(absorption_events') = Len(absorption_events) + 1
             /\ trades_taken' = trades_taken + 1
             /\ Len(submitted') = Len(submitted) + 1]_vars

\* The Enhanced strategy has sent a SELL and, in the last cycle, a BUY: two
\* trades counted, two events recorded.
C15_Witness ==
    /\ variant = "Enhanced"
    /\ last.orders = 1
    /\ trades_taken = 2
    /\ Len(absorption_events) = 2
    /\ submitted[1].order.order_side = "SELL"
    /\ submitted[2].order.order_side = "BUY"
    /\ last_trade_timestamp = Some(now)

\* C16: an evaluation made outside the cooldown in which neither rule fires
\* is to take no action: no order, and the last trade timestamp, the trade
\* counter and the log of absorption events as they were before it.
C16_IdleNoAction ==
    [][(/\ last'.handler = "on_order_book_deltas"
        /\ last'.checked_at # None
        /\ last'.outcome = "none")
       => /\ submitted' = submitted
          /\ last_trade_timestamp' = last_trade_timestamp
          /\ trades_taken' = trades_taken
          /\ absorption_events' = absorption_events]_vars

\* C17: in both strategies an evaluation made during the cooldown is a
\* no-op of the decision policy: it submits no order, appends no absorption
\* event and leaves the last trade timestamp and the trade counter as they
\* were.
C17_CoolingDownNoOp ==
    [][(/\ last'.handler = "on_order_book_deltas"
        /\ last'.checked_at # None
        /\ Get(last'.seconds_since_last_trade) < cooldown_period_seconds)
       => /\ submitted' = submitted
          /\ absorption_events' = absorption_events
          /\ last_trade_timestamp' = last_trade_timestamp
          /\ trades_taken' = trades_taken]_vars

\* The Enhanced strategy has sent one order, and the last evaluation fell in
\* the cooldown with an ask volume that meets the buy rule.
C17_Witness ==
    /\ variant = "Enhanced"
    /\ Len(submitted) = 1
    /\ last.checked_at # None
    /\ Get(last.seconds_since_last_trade) < cooldown_period_seconds
    /\ Get(last.ask_volume) > min_absorption_volume
    /\ Get(last.bid_volume) = 0
    /\ last.orders = 0
    /\ Len(absorption_events) = 1

\* Rule 1 or rule 2 holds of the volumes the last evaluation computed.
RuleFires ==
    LET bid_volume == Get(last.bid_volume)
        ask_volume == Get(last.ask_volume)
    IN  \/ /\ bid_volume > min_absorption_volume
           /\ IF variant = "Enhanced" THEN 2 * bid_volume > 3 * ask_volume
                                      ELSE bid_volume > 2 * ask_volume
        \/ /\ ask_volume > min_absorption_volume
           /\ IF variant = "Enhanced" THEN 2 * ask_volume > 3 * bid_volume
                                      ELSE ask_volume > 2 * bid_volume

\* C18: an evaluation made when at least cooldown_period_seconds have passed
\* since the last trade timestamp (exactly that much counts) is not held
\* back: if its volumes satisfy rule 1 or rule 2 (the best price exists on a
\* complete book) it submits an order, stamped as the new last trade; no
\* other event has to come first.
C18_ReturnToIdle ==
    (/\ last.checked_at # None
     /\ Get(last.seconds_since_last_trade) >= cooldown_period_seconds)
    => /\ last.outcome # "cooldown"
       /\ RuleFires =>
             /\ last.orders = 1
             /\ submitted[Len(submitted)].ts >= Get(last.checked_at)
             /\ last_trade_timestamp = Some(submitted[Len(submitted)].ts)

\* The Enhanced strategy sent an order, and the evaluation made exactly
\* cooldown_period_seconds after it sent the next.
C18_Witness ==
    /\ variant = "Enhanced"
    /\ Len(submitted) = 2
    /\ last.orders = 1
    /\ Get(last.seconds_since_last_trade) = cooldown_period_seconds
    /\ Get(last.checked_at) = submitted[1].ts + cooldown_period_seconds

\* C20: a cycle that finds no cached book, or a book with an empty bid or
\* ask side, submits no order and leaves the previous bid and ask
\* snapshots, the liquidity-area lists, the last trade timestamp, the trade
\* counter and the event log as they were.
C20_IncompleteBookSkipped ==
    [][(/\ last'.handler = "on_order_book_deltas"
        /\ last'.outcome \in {"no_book", "incomplete"})
       => /\ submitted' = submitted
          /\ prev_bid_levels' = prev_bid_levels
          /\ prev_ask_levels' = prev_ask_levels
          /\ bid_liquidity_areas' = bid_liquidity_areas
          /\ ask_liquidity_areas' = ask_liquidity_areas
          /\ last_trade_timestamp' = last_trade_timestamp
          /\ trades_taken' = trades_taken
          /\ absorption_events' = absorption_events]_vars

\* The Enhanced strategy, holding snapshots, a liquidity area, an event and
\* a sent order, has just met an incomplete book.
C20_Witness ==
    /\ variant = "Enhanced"
    /\ last.handler = "on_order_book_deltas"
    /\ last.outcome = "incomplete"
    /\ last.orders = 0
    /\ prev_bid_levels # EmptyDict
    /\ prev_ask_levels # EmptyDict
    /\ bid_liquidity_areas # << >>
    /\ Len(absorption_events) = 1
    /\ Len(submitted) = 1
    /\ trades_taken = 1

\* C21: when a cycle was skipped because the book was missing or had an
\* empty side, the next book-update event that carries deltas is evaluated
\* again: it is not held back by the rate limit.
C21_RetryAfterIncomplete ==
    [][(/\ last.handler = "on_order_book_deltas"
        /\ last.outcome \in {"no_book", "incomplete"}
        /\ last'.handler = "on_order_book_deltas"
        /\ last'.outcome # "no_deltas")
       => last'.outcome # "rate_limited"]_vars

\* C22: a cycle that finds a complete book while both previous snapshots
\* are empty captures both snapshots and does nothing else: it computes no
\* absorption volume, does not reach the decision (no cooldown check), and
\* leaves the orders, the last trade timestamp, the trade counter and the
\* event log as they were.
C22_FirstCycle ==
    [][(/\ prev_bid_levels = EmptyDict
        /\ prev_ask_levels = EmptyDict
        /\ last'.handler = "on_order_book_deltas"
        /\ (prev_bid_levels' # EmptyDict \/ prev_ask_levels' # EmptyDict))
       => /\ prev_bid_levels' # EmptyDict
          /\ prev_ask_levels' # EmptyDict
          /\ last'.bid_volume = None
          /\ last'.ask_volume = None
          /\ last'.checked_at = None
          /\ last'.seconds_since_last_trade = None
          /\ last'.orders = 0
          /\ submitted' = submitted
          /\ last_trade_timestamp' = last_trade_timestamp
          /\ trades_taken' = trades_taken
          /\ absorption_events' = absorption_events
          /\ lifecycle' = lifecycle]_vars

\* The first cycle ran: the snapshots are there and nothing else happened.
C22_Witness ==
    /\ last.handler = "on_order_book_deltas"
    /\ last.outcome = "first_cycle"
    /\ prev_bid_levels # EmptyDict
    /\ prev_ask_levels # EmptyDict
    /\ last.bid_volume = None
    /\ submitted = << >>
    /\ absorption_events = << >>
    /\ lifecycle = "RUNNING"

\* C23: a strategy whose on_start found no instrument has stopped itself,
\* holds no subscription and, whatever events still reach it, has sent no
\* order.
C23_MissingInstrument ==
    /\ (last.handler = "on_start" /\ instrument = None) => lifecycle = "STOPPED"
    /\ (lifecycle = "STOPPED" /\ instrument = None)
       => /\ subscriptions = {}
          /\ submitted = << >>
          /\ last.orders = 0

\* A book update reached the strategy that stopped itself at start.
C23_Witness ==
    /\ lifecycle = "STOPPED"
    /\ instrument = None
    /\ last.handler = "on_order_book_deltas"
    /\ last.outcome = "no_instrument"
    /\ subscriptions = {}
    /\ submitted = << >>

\* C24: a stopped strategy that had loaded its instrument has requested
\* the cancellation of all its orders and the closure of all its positions
\* and holds none of the subscriptions it made at start, whichever of the
\* two strategies it is.
C24_StopCleanup ==
    (lifecycle = "STOPPED" /\ instrument # None)
    => /\ stop_requests = {"cancel_all_orders", "close_all_positions"}
       /\ subscriptions = {}

\* C25: on_trade_tick of the Enhanced strategy changes no strategy state
\* (previous snapshots, liquidity-area lists, last check time, last trade
\* timestamp, trade counter, event log), runs no evaluation cycle and
\* submits no order.
C25_TradeTickObservational ==
    [][last'.handler = "on_trade_tick"
       => /\ UNCHANGED << prev_bid_levels, prev_ask_levels,
                          bid_liquidity_areas, ask_liquidity_areas,
                          last_check_time, last_trade_timestamp,
                          trades_taken, absorption_events, submitted >>
          /\ last'.orders = 0
          /\ last'.checked_at = None
          /\ last'.bid_volume = None
          /\ last'.ask_volume = None]_vars

\* A trade tick reached a strategy that holds snapshots, a liquidity area,
\* an event and a sent order.
C25_Witness ==
    /\ variant = "Enhanced"
    /\ last.handler = "on_trade_tick"
    /\ prev_bid_levels # EmptyDict
    /\ prev_ask_levels # EmptyDict
    /\ bid_liquidity_areas # << >>
    /\ last_check_time # None
    /\ Len(absorption_events) = 1
    /\ Len(submitted) = 1
    /\ trades_taken = 1

\* The outcomes of a cycle that found a complete book.
CompleteCycle == {"first_cycle", "cooldown", "none", "sell", "buy"}

\* C26: the previous snapshots change only in a cycle with a complete book,
\* and every such cycle leaves both of them set to what it captured; a
\* cycle that computes absorption therefore compares the snapshots it
\* found, those of the complete cycle just before, with the ones it leaves.
C26_OneStepHistory ==
    /\ [][(prev_bid_levels' # prev_bid_levels \/ prev_ask_levels' # prev_ask_levels)
          => /\ last'.handler = "on_order_book_deltas"
             /\ last'.outcome \in CompleteCycle]_vars
    /\ [][(last'.handler = "on_order_book_deltas" /\ last'.bid_volume # None)
          => /\ DOMAIN prev_bid_levels' = {Get(last'.best_bid)}
             /\ DOMAIN prev_ask_levels' = {Get(last'.best_ask)}
             /\ Get(last'.bid_volume) =
                   IF variant = "Enhanced"
                   THEN CalculateLiquidityAbsorption(prev_bid_levels, prev_bid_levels',
                                                     bid_liquidity_areas').volume
                   ELSE CalculateAbsorption(prev_bid_levels, prev_bid_levels')
             /\ Get(last'.ask_volume) =
                   IF variant = "Enhanced"
                   THEN CalculateLiquidityAbsorption(prev_ask_levels, prev_ask_levels',
                                                     ask_liquidity_areas').volume
                   ELSE CalculateAbsorption(prev_ask_levels, prev_ask_levels')]_vars

\* A cycle held back by the cooldown has computed a bid absorption of 1 and
\* left a bid snapshot other than the one it found: three complete cycles
\* have run.
C26_Witness ==
    /\ last.handler = "on_order_book_deltas"
    /\ last.outcome = "cooldown"
    /\ Get(last.bid_volume) = 1
    /\ Len(submitted) = 1
    /\ prev_bid_levels # EmptyDict
    /\ prev_ask_levels # EmptyDict

\* A list of areas holds, once each, exactly the prices of the snapshot
\* whose quantity exceeds liquidity_threshold.
AreasOfSnapshot(areas, snapshot) ==
    /\ Range(areas) = {p \in DOMAIN snapshot : snapshot[p] > liquidity_threshold}
    /\ Len(areas) = Cardinality(Range(areas))

\* C27, for the cycles that find a complete book: after such a cycle of the
\* Enhanced strategy each liquidity-area list holds exactly the prices whose
\* quantity exceeds liquidity_threshold in the book of that cycle (the book
\* the cycle's snapshots were taken from), each once, and nothing carried
\* over from an earlier list.
C27_AreasReplacedOnCompleteBook ==
    (/\ variant = "Enhanced"
     /\ last.handler = "on_order_book_deltas"
     /\ last.outcome \in CompleteCycle)
    => /\ AreasOfSnapshot(bid_liquidity_areas, prev_bid_levels)
       /\ AreasOfSnapshot(ask_liquidity_areas, prev_ask_levels)

\* A later complete cycle has left the bid list empty and the ask list
\* with the one ask price that exceeds the threshold.
C27_Witness ==
    /\ variant = "Enhanced"
    /\ last.handler = "on_order_book_deltas"
    /\ last.outcome = "none"
    /\ Len(absorption_events) = 2
    /\ bid_liquidity_areas = << >>
    /\ ask_liquidity_areas = << AskPrice >>
    /\ prev_bid_levels[BidPrice] <= liquidity_threshold
    /\ prev_ask_levels[AskPrice] > liquidity_threshold

\* C27 as stated, for every cycle: after any cycle of the Enhanced strategy
\* each list holds only prices whose quantity exceeds liquidity_threshold in
\* that cycle's book.  A cycle whose book lacks a side (or is missing) has
\* no such price on that side, so one of the lists at least is empty.
C27_AreasReplacedEveryCycle ==
    /\ C27_AreasReplacedOnCompleteBook
    /\ (/\ variant = "Enhanced"
        /\ last.handler = "on_order_book_deltas"
        /\ last.outcome = "incomplete")
       => (bid_liquidity_areas = << >> \/ ask_liquidity_areas = << >>)

\* C31: the outcome of an order (filled, killed or rejected) makes the
\* strategy do nothing: the order is not handed in again and the last trade
\* timestamp set at the submission stays.  An order is only ever added by a
\* book-update cycle, one at a time, whose evaluation comes no earlier than
\* cooldown_period_seconds after the last trade timestamp and satisfies the
\* decision rule on its own volumes; the submission starts the cooldown.
C31_NoRetry ==
    [][/\ last'.handler = "on_order_event"
          => UNCHANGED << submitted, last_trade_timestamp, trades_taken,
                          absorption_events, prev_bid_levels, prev_ask_levels >>
       /\ submitted' # submitted
          => /\ last'.handler = "on_order_book_deltas"
             /\ Len(submitted') = Len(submitted) + 1
             /\ SubSeq(submitted', 1, Len(submitted)) = submitted
             /\ last'.checked_at # None
             /\ Get(last'.checked_at) - Get(last_trade_timestamp)
                   >= cooldown_period_seconds
             /\ RuleFires'
             /\ last_trade_timestamp' = Some(submitted'[Len(submitted')].ts)]_vars

\* A rejection reached the strategy after its one submission, inside the
\* cooldown that submission started.
C31_Witness ==
    /\ last.handler = "on_order_event"
    /\ last.outcome = "rejected"
    /\ Len(submitted) = 1
    /\ last_trade_timestamp = Some(submitted[1].ts)
    /\ now - submitted[1].ts < cooldown_period_seconds

\* C33: a cycle with a complete book that the cooldown holds back sends no
\* order and still replaces both snapshots (and, in the Enhanced strategy,
\* the liquidity-area lists) by those of its book, so the decrease it
\* observed is taken out of the baseline; the cycle that follows computes
\* its volumes from the snapshots the held-back cycle left, and the
\* discarded decrease is in none of them.
C33_RollingDuringCooldown ==
    /\ [][(last'.handler = "on_order_book_deltas" /\ last'.outcome = "cooldown")
          => /\ submitted' = submitted
             /\ DOMAIN prev_bid_levels' = {Get(last'.best_bid)}
             /\ DOMAIN prev_ask_levels' = {Get(last'.best_ask)}
             /\ \A p \in DOMAIN prev_bid_levels \cap DOMAIN prev_bid_levels' :
                   Get(last'.bid_volume) > 0
                   => prev_bid_levels'[p] = prev_bid_levels[p] - Get(last'.bid_volume)
             /\ \A p \in DOMAIN prev_ask_levels \cap DOMAIN prev_ask_levels' :
                   Get(last'.ask_volume) > 0
                   => prev_ask_levels'[p] = prev_ask_levels[p] - Get(last'.ask_volume)
             /\ variant = "Enhanced"
                => /\ AreasOfSnapshot(bid_liquidity_areas', prev_bid_levels')
                   /\ AreasOfSnapshot(ask_liquidity_areas', prev_ask_levels')]_vars
    /\ [][(/\ last.handler = "on_order_book_deltas"
           /\ last.outcome = "cooldown"
           /\ last'.handler = "on_order_book_deltas"
           /\ last'.bid_volume # None)
          => \A p \in DOMAIN prev_bid_levels \cap DOMAIN prev_bid_levels' :
                /\ Get(last'.bid_volume) <= prev_bid_levels[p]
                /\ Get(last'.bid_volume) \in
                      {0, prev_bid_levels[p] - prev_bid_levels'[p]}]_vars

\* Inside the cooldown a cycle saw the bids shrink by more than
\* min_absorption_volume with the asks unchanged, which outside the
\* cooldown is a sell signal; no order went out.
C33_Witness ==
    /\ last.handler = "on_order_book_deltas"
    /\ last.outcome = "cooldown"
    /\ Get(last.bid_volume) > min_absorption_volume
    /\ Get(last.ask_volume) = 0
    /\ last.orders = 0
    /\ Len(submitted) = 1

\* C34: on_start sets the last trade timestamp to the start time and it
\* stays there until the first submission, which comes no earlier than
\* cooldown_period_seconds after it: nothing is submitted during the first
\* cooldown_period_seconds after the start, also by a cycle whose volumes
\* satisfy the decision rule.
C34_StartupCooldown ==
    /\ [][(last'.handler = "on_start" /\ instrument' # None)
          => /\ last_trade_timestamp' = Some(now')
             /\ submitted' = << >>]_vars
    /\ [][(last_trade_timestamp # None /\ submitted' = << >>)
          => last_trade_timestamp' = last_trade_timestamp]_vars
    /\ [][(submitted = << >> /\ submitted' # << >>)
          => submitted'[1].ts - Get(last_trade_timestamp)
                >= cooldown_period_seconds]_vars
    /\ [][(/\ submitted = << >>
           /\ last'.checked_at # None
           /\ Get(last'.checked_at) - Get(last_trade_timestamp)
                 < cooldown_period_seconds)
          => submitted' = << >>]_vars

\* No order has ever been sent, the volumes of a cycle satisfy the decision
\* rule, and the cycle was held back by the cooldown that began at the start.
C34_Witness ==
    /\ submitted = << >>
    /\ trades_taken = 0
    /\ last.handler = "on_order_book_deltas"
    /\ last.outcome = "cooldown"
    /\ RuleFires
    /\ Get(last.checked_at) - Get(last_trade_timestamp) < cooldown_period_seconds

\* C36: in the Enhanced strategy the previous bid snapshot and the previous
\* ask snapshot are both empty or both non-empty; they are set together, by
\* one cycle, and once they are set no step empties either of them, so a
\* cycle takes the first-cycle path only while both are still empty.
C36_PairedSnapshots ==
    /\ [](variant = "Enhanced"
          => (prev_bid_levels = EmptyDict <=> prev_ask_levels = EmptyDict))
    /\ [][variant = "Enhanced"
          => /\ (prev_bid_levels' # prev_bid_levels
                   <=> prev_ask_levels' # prev_ask_levels)
                \/ (last'.outcome \in CompleteCycle
                      /\ prev_bid_levels' # EmptyDict
                      /\ prev_ask_levels' # EmptyDict)
             /\ prev_bid_levels # EmptyDict
                => (prev_bid_levels' # EmptyDict /\ prev_ask_levels' # EmptyDict)
             /\ (last'.handler = "on_order_book_deltas"
                   /\ last'.outcome = "first_cycle")
                => (prev_bid_levels = EmptyDict /\ prev_ask_levels = EmptyDict)]_vars

\* After its first complete cycle the Enhanced strategy met an incomplete
\* book and still holds both snapshots.
C36_Witness ==
    /\ variant = "Enhanced"
    /\ last.handler = "on_order_book_deltas"
    /\ last.outcome = "incomplete"
    /\ prev_bid_levels # EmptyDict
    /\ prev_ask_levels # EmptyDict
    /\ absorption_events = << >>
    /\ submitted = << >>

-----------------------------------------------------------------------------
(* Properties of the helpers (SpecHelpers).  call holds the arguments and  *)
(* the result of the one call made.                                        *)

Shrunk(prev, cur, p) == p \in DOMAIN prev /\ p \in DOMAIN cur /\ cur[p] < prev[p]

Vanished(prev, cur, p) == p \in DOMAIN prev /\ p \notin DOMAIN cur

\* The prices and the amounts of the debug lines of a filtered calculation.
LoggedPrices(debug) == [i \in DOMAIN debug |-> debug[i][1]]

LoggedAmounts(debug) == [i \in DOMAIN debug |-> debug[i][2]]

\* The total resting at a level, summed over its orders.
TotalResting(level) == SumSeq([i \in DOMAIN level.orders |-> level.orders[i].size])

\* C4: in both calculators a candidate price present in both snapshots with
\* current quantity < previous quantity contributes exactly previous -
\* current to the side's absorption volume; when no candidate vanished the
\* volume is the sum of these differences.
C4_Shrinkage ==
    /\ call.fn = "calculate_absorption" =>
          /\ \A p \in DOMAIN call.prev :
                Shrunk(call.prev, call.cur, p)
                => call.contrib[p] = call.prev[p] - call.cur[p]
          /\ (\A p \in DOMAIN call.prev : p \in DOMAIN call.cur)
             => call.result =
                   SumOver([p \in DOMAIN call.prev |->
                               IF call.cur[p] < call.prev[p]
                               THEN call.prev[p] - call.cur[p] ELSE 0],
                           DOMAIN call.prev)
    /\ call.fn = "calculate_liquidity_absorption" =>
          LET candidates == Range(call.areas) \cap DOMAIN call.prev
          IN  /\ \A p \in candidates :
                    Shrunk(call.prev, call.cur, p)
                    => /\ << p, call.prev[p] - call.cur[p] >> \in Range(call.result.debug)
                       /\ p \in Range(call.result.prices)
              /\ (\A p \in candidates : p \in DOMAIN call.cur)
                 => call.result.volume =
                       SumOver([p \in candidates |->
                                   IF call.cur[p] < call.prev[p]
                                   THEN call.prev[p] - call.cur[p] ELSE 0],
                               candidates)

\* The unfiltered calculator on two prices of which one shrank and the
\* other kept its quantity: the volume is the one difference.
C4_Witness ==
    /\ call.fn = "calculate_absorption"
    /\ Cardinality(DOMAIN call.prev) = 2
    /\ DOMAIN call.cur = DOMAIN call.prev
    /\ \E p \in DOMAIN call.prev :
          /\ call.cur[p] < call.prev[p]
          /\ \A q \in DOMAIN call.prev \ {p} : call.cur[q] = call.prev[q]
          /\ call.result = call.prev[p] - call.cur[p]
          /\ call.result > 0

\* C5: in both calculators a price absent from the previous snapshot, or
\* whose current quantity is at least its previous quantity, contributes 0
\* and is not recorded as affected; the absorption volume is never negative.
C5_NonShrinking ==
    /\ call.fn = "calculate_absorption" =>
          /\ \A p \in DOMAIN call.prev :
                (p \in DOMAIN call.cur /\ call.cur[p] >= call.prev[p])
                => call.contrib[p] = 0
          /\ call.result >= 0
          /\ call.result <=
                SumOver([p \in DOMAIN call.prev |->
                            IF Vanished(call.prev, call.cur, p) THEN call.prev[p]
                            ELSE IF Shrunk(call.prev, call.cur, p)
                                 THEN call.prev[p] - call.cur[p]
                                 ELSE 0],
                        DOMAIN call.prev)
    /\ call.fn = "calculate_liquidity_absorption" =>
          /\ \A p \in Prices :
                (\/ p \notin DOMAIN call.prev
                 \/ (p \in DOMAIN call.cur /\ call.cur[p] >= call.prev[p]))
                => /\ p \notin Range(call.result.prices)
                   /\ p \notin Range(LoggedPrices(call.result.debug))
          /\ call.result.volume >= 0
          /\ call.result.volume = SumSeq(LoggedAmounts(call.result.debug))
          /\ call.result.prices = LoggedPrices(call.result.debug)

\* The filtered calculator on a liquidity area that kept its quantity and
\* one the previous snapshot lacks: volume 0, nothing affected.
C5_Witness ==
    /\ call.fn = "calculate_liquidity_absorption"
    /\ \E p \in Range(call.areas) :
          /\ p \in DOMAIN call.prev /\ p \in DOMAIN call.cur
          /\ call.cur[p] = call.prev[p]
    /\ \E p \in Range(call.areas) : p \notin DOMAIN call.prev /\ p \in DOMAIN call.cur
    /\ call.result.volume = 0
    /\ call.result.prices = << >>

\* C6: in _calculate_liquidity_absorption every price of the liquidity-area
\* list that the previous snapshot holds and the current snapshot lacks
\* contributes its full previous quantity and is recorded as affected,
\* whatever else the current snapshot holds.
C6_FilteredDisappearance ==
    call.fn = "calculate_liquidity_absorption" =>
       LET candidates == Range(call.areas) \cap DOMAIN call.prev
       IN  /\ \A p \in candidates :
                 Vanished(call.prev, call.cur, p)
                 => /\ << p, call.prev[p] >> \in Range(call.result.debug)
                    /\ p \in Range(call.result.prices)
           /\ (\A p \in candidates : Vanished(call.prev, call.cur, p))
              => /\ call.result.volume = SumOver(call.prev, candidates)
                 /\ Range(call.result.prices) = candidates

\* A liquidity area vanished while the current snapshot gained a greater
\* price: its whole previous quantity is the volume.
C6_Witness ==
    /\ call.fn = "calculate_liquidity_absorption"
    /\ \E p \in DOMAIN call.prev :
          /\ call.areas = << p >>
          /\ p \notin DOMAIN call.cur
          /\ \E q \in DOMAIN call.cur : q \notin DOMAIN call.prev /\ q > p
          /\ call.result.volume = call.prev[p]
          /\ call.result.prices = << p >>

\* q is a better price than p for the side: higher for bids, lower for asks.
HigherRanked(side, q, p) == IF side = "bid" THEN q > p ELSE q < p

\* C7: in _calculate_absorption a price of the previous snapshot that the
\* current snapshot lacks contributes its full previous quantity unless the
\* current snapshot holds a price the previous one lacked that is
\* higher-ranked for the side (higher for bids, lower for asks); then it
\* contributes 0.  This is to hold on the bid side and on the ask side.
C7_RepriceGuard ==
    call.fn = "calculate_absorption" =>
       \A p \in DOMAIN call.prev :
          Vanished(call.prev, call.cur, p)
          => call.contrib[p] =
                IF \E q \in DOMAIN call.cur :
                      q \notin DOMAIN call.prev /\ HigherRanked(call.side, q, p)
                THEN 0
                ELSE call.prev[p]

\* C8: after identify_liquidity_areas has run on a complete book, a price
\* is in a side's list iff it is the price of one of the side's top
\* monitor_levels levels whose total resting quantity is strictly greater
\* than liquidity_threshold; each side's list depends on that side only.
C8_LiquidityAreas ==
    (call.fn = "identify_liquidity_areas" /\ ~Incomplete(call.book)) =>
       LET areas(levels) ==
               {levels[i].price :
                   i \in {j \in DOMAIN levels :
                             /\ j <= monitor_levels
                             /\ TotalResting(levels[j]) > liquidity_threshold}}
       IN  /\ Range(call.result.bid) = areas(call.book.bids)
           /\ Range(call.result.ask) = areas(call.book.asks)

\* A complete book: on one side the best level exceeds the threshold and
\* so does a level beyond the cutoff, and only the best is listed; on the
\* other side the best level rests exactly the threshold and nothing is
\* listed.
C8_Witness ==
    /\ call.fn = "identify_liquidity_areas"
    /\ ~Incomplete(call.book)
    /\ \E side \in Sides :
          LET levels == IF side = "bid" THEN call.book.bids ELSE call.book.asks
              listed == IF side = "bid" THEN call.result.bid ELSE call.result.ask
              others == IF side = "bid" THEN call.book.asks ELSE call.book.bids
              other_listed == IF side = "bid" THEN call.result.ask ELSE call.result.bid
          IN  /\ Len(levels) > monitor_levels
              /\ TotalResting(levels[Len(levels)]) > liquidity_threshold
              /\ TotalResting(levels[1]) > liquidity_threshold
              /\ listed = << levels[1].price >>
              /\ TotalResting(others[1]) = liquidity_threshold
              /\ other_listed = << >>

\* C9: for every list of levels the snapshot of
\* EnhancedAbsorptionStrategy._extract_levels maps each level's price to the
\* sum of the sizes of the orders resting at the level, and holds no other
\* price.
C9_ExtractSumEnhanced ==
    call.fn = "extract_levels_enhanced" =>
       /\ DOMAIN call.result = {call.levels[i].price : i \in DOMAIN call.levels}
       /\ \A i \in DOMAIN call.levels :
             call.result[call.levels[i].price] = TotalResting(call.levels[i])

\* A list of two levels, one of which holds two orders of different sizes.
C9_Witness ==
    /\ call.fn = "extract_levels_enhanced"
    /\ Len(call.levels) >= 2
    /\ \E i \in DOMAIN call.levels :
          /\ Len(call.levels[i].orders) = 2
          /\ call.levels[i].orders[1].size # call.levels[i].orders[2].size
          /\ call.result[call.levels[i].price] =
                call.levels[i].orders[1].size + call.levels[i].orders[2].size

\* C10: the snapshot of AbsorptionStrategy._extract_levels is to map each
\* price to the total quantity resting at it, the sum over all orders at
\* the price, also when a level holds two or more orders.
C10_ExtractSumAbsorption ==
    call.fn = "extract_levels_absorption" =>
       /\ DOMAIN call.result = {call.levels[i].price : i \in DOMAIN call.levels}
       /\ \A i \in DOMAIN call.levels :
             call.result[call.levels[i].price] = TotalResting(call.levels[i])

\* What a listed price contributes: its whole previous quantity when it
\* vanished, the difference when it shrank.
ContributionOf(prev, cur, p) ==
    IF p \in DOMAIN cur THEN prev[p] - cur[p] ELSE prev[p]

\* C29: the affected list of _calculate_liquidity_absorption is the
\* liquidity-area list, in its order, cut down to the prices that shrank or
\* vanished, each once; the volume is the sum of the contributions of
\* exactly these prices.
C29_ResultConsistency ==
    call.fn = "calculate_liquidity_absorption" =>
        LET affected == call.result.prices
        IN  /\ affected =
                  SelectSeq(call.areas,
                            LAMBDA p : \/ Shrunk(call.prev, call.cur, p)
                                       \/ Vanished(call.prev, call.cur, p))
            /\ Cardinality(Range(affected)) = Len(affected)
            /\ call.result.volume =
                  SumSeq([i \in DOMAIN affected |->
                             ContributionOf(call.prev, call.cur, affected[i])])

\* Two bid areas, the higher first, both affected: one shrank, one vanished.
C29_Witness ==
    /\ call.fn = "calculate_liquidity_absorption"
    /\ call.side = "bid"
    /\ Len(call.areas) = 2
    /\ call.result.prices = call.areas
    /\ call.result.prices[1] > call.result.prices[2]
    /\ Shrunk(call.prev, call.cur, call.result.prices[1])
    /\ Vanished(call.prev, call.cur, call.result.prices[2])
    /\ call.result.volume = call.prev[call.result.prices[2]] + 1

\* C28: for both calculators and every previous snapshot, a current
\* snapshot in which a price has quantity 0 gives the same absorption volume
\* as the current snapshot without that price.
C28_ZeroIsAbsence ==
    call.fn = "with_zero_quantity" =>
        /\ call.absorption_zero = call.absorption
        /\ call.liquidity_zero.volume = call.liquidity.volume

\* The number of levels of a ranked list that lie within the cutoff.
Cutoff(levels) == IF monitor_levels < Len(levels) THEN monitor_levels ELSE Len(levels)

\* C30: a captured snapshot holds at most monitor_levels prices, exactly
\* those of the first min(monitor_levels, number of levels) ranked levels,
\* each with a quantity read from the level at that price; the
\* liquidity-area lists hold prices of these levels only.  A level beyond
\* the cutoff thus reaches neither a snapshot nor a list, nor the absorption
\* volumes, which are computed from the snapshots and the lists.
C30_MonitorLevelsCutoff ==
    /\ call.fn = "capture_snapshot" =>
          /\ Cardinality(DOMAIN call.result) <= monitor_levels
          /\ DOMAIN call.result =
                {call.levels[i].price : i \in 1 .. Cutoff(call.levels)}
          /\ \A i \in 1 .. Cutoff(call.levels) :
                call.result[call.levels[i].price] =
                   IF variant = "Enhanced"
                   THEN TotalResting(call.levels[i])
                   ELSE call.levels[i].orders[Len(call.levels[i].orders)].size
    /\ (call.fn = "identify_liquidity_areas" /\ ~Incomplete(call.book)) =>
          /\ Range(call.result.bid) \subseteq
                {call.book.bids[i].price : i \in 1 .. Cutoff(call.book.bids)}
          /\ Range(call.result.ask) \subseteq
                {call.book.asks[i].price : i \in 1 .. Cutoff(call.book.asks)}

\* A side with more levels than monitor_levels: the snapshot holds the
\* price of the first level and not that of the level after it.
C30_Witness ==
    /\ call.fn = "capture_snapshot"
    /\ Len(call.levels) > monitor_levels
    /\ DOMAIN call.result = {call.levels[1].price}
    /\ call.levels[monitor_levels + 1].price \notin DOMAIN call.result

\* C32: in a cycle of the Enhanced strategy every price of a side's
\* liquidity-area list is a key of the cycle's current snapshot, so no
\* listed price is counted as vanished; the affected prices all have a
\* current quantity above liquidity_threshold, and a price of the previous
\* snapshot that disappeared, or whose quantity is now at the threshold or
\* below, contributes nothing: the volume is the sum of the shrinkages at
\* the prices still above the threshold.
C32_AreasWithinSnapshot ==
    call.fn = "cycle_of_side" =>
        LET cur == call.cycle.current
            affected == call.cycle.result.prices
            counted == {p \in DOMAIN call.prev :
                           /\ p \in DOMAIN cur
                           /\ cur[p] > liquidity_threshold
                           /\ cur[p] < call.prev[p]}
        IN  /\ Range(call.cycle.areas) \subseteq DOMAIN cur
            /\ \A p \in Range(affected) :
                  ~Vanished(call.prev, cur, p) /\ cur[p] > liquidity_threshold
            /\ Range(affected) = counted
            /\ call.cycle.result.volume =
                  SumOver([p \in counted |-> call.prev[p] - cur[p]], counted)

\* A previous level that held more than the threshold disappeared while
\* the side now shows another level above the threshold: nothing is counted.
C32_Witness ==
    /\ call.fn = "cycle_of_side"
    /\ \E p \in DOMAIN call.prev :
          /\ call.prev[p] > liquidity_threshold
          /\ Vanished(call.prev, call.cycle.current, p)
    /\ call.cycle.areas # << >>
    /\ call.cycle.result.volume = 0

-----------------------------------------------------------------------------
(* Properties of the decision called on its own (SpecDecision).            *)

\* Rule 1 holds of the volumes the call was given.
CallSellRule ==
    /\ call.bid_volume > min_absorption_volume
    /\ IF variant = "Enhanced" THEN 2 * call.bid_volume > 3 * call.ask_volume
                               ELSE call.bid_volume > 2 * call.ask_volume

\* Rule 2 holds of the volumes the call was given.
CallBuyRule ==
    /\ call.ask_volume > min_absorption_volume
    /\ IF variant = "Enhanced" THEN 2 * call.ask_volume > 3 * call.bid_volume
                               ELSE call.ask_volume > 2 * call.bid_volume

\* C19: when rule 1 fires and the book has no best bid, or rule 2 fires and
\* the book has no best ask, the call submits no order and leaves the last
\* trade timestamp and the trade counter as they were, so no cooldown
\* starts.
C19_MissingBestPrice ==
    (/\ call.fn = "check_and_act_on_absorption"
     /\ \/ CallSellRule /\ call.book.bids = << >>
        \/ CallBuyRule /\ call.book.asks = << >>)
    => /\ submitted = << >>
       /\ last_trade_timestamp = call.last_trade_timestamp
       /\ trades_taken = call.trades_taken

\* Out of cooldown, rule 1 fired on a book with asks and no bids.
C19_Witness ==
    /\ call.fn = "check_and_act_on_absorption"
    /\ call.seconds_since_last_trade >= cooldown_period_seconds
    /\ CallSellRule
    /\ call.book.bids = << >>
    /\ call.book.asks # << >>
    /\ submitted = << >>
    /\ last_trade_timestamp = call.last_trade_timestamp

\* C35: for the volumes a call is given, the SELL condition and the BUY
\* condition never hold together, with the factor 1.5 of the Enhanced
\* strategy and with the factor 2 of AbsorptionStrategy; the side acted on
\* is therefore the same in whichever order the two are tested.
C35_RulesExclusive ==
    call.fn = "check_and_act_on_absorption" =>
        /\ ~(/\ SellSignalEnhanced(call.bid_volume, call.ask_volume)
             /\ BuySignalEnhanced(call.bid_volume, call.ask_volume))
        /\ ~(/\ SellSignalAbsorption(call.bid_volume, call.ask_volume)
             /\ BuySignalAbsorption(call.bid_volume, call.ask_volume))

\* Both volumes exceed min_absorption_volume and the bid volume dominates
\* by the factor 1.5: only the comparison of the two keeps BUY from holding.
C35_Witness ==
    /\ call.fn = "check_and_act_on_absorption"
    /\ call.ask_volume > min_absorption_volume
    /\ call.bid_volume > min_absorption_volume
    /\ variant = "Enhanced"
    /\ SellSignalEnhanced(call.bid_volume, call.ask_volume)
    /\ call.seconds_since_last_trade >= cooldown_period_seconds
    /\ Len(submitted) = 1
    /\ submitted[1].order.order_side = "SELL"


-----------------------------------------------------------------------------
(* Properties of the LiquidityTaker (SpecTaker).  last holds the handler    *)
(* that ran last, the clock reading it took and the tick or the asks it was *)
(* handed.                                                                  *)

\* The book update of this step found the wait period still running.
BookUpdateBeforeWait ==
    /\ last'.handler = "on_order_book"
    /\ last'.clock < taker.market_open_time + wait_minutes_after_open

\* C37: a book update whose clock reading is earlier than the market open
\* time of the session plus wait_minutes_after_open submits no order, and
\* only a book update at or after that time adds an order.
C37_NoOrderBeforeWait ==
    [][/\ BookUpdateBeforeWait => submitted' = submitted
       /\ submitted' # submitted
          => /\ last'.handler = "on_order_book"
             /\ last'.clock >= taker.market_open_time + wait_minutes_after_open]_vars

\* A book update arrived before the wait period was over, with an ask level
\* above the threshold and a cvd above its threshold, and no order exists.
C37_Witness ==
    /\ last.handler = "on_order_book"
    /\ last.clock < taker.market_open_time + wait_minutes_after_open
    /\ last.clock >= taker.market_open_time
    /\ \E i \in DOMAIN last.asks : last.asks[i].price > price_level_threshold
    /\ taker.cvd > cvd_threshold
    /\ submitted = << >>

\* The date of the session in force before the i-th delivered event: the
\* date of the event before it, or the date the instance was built on.
SessionDateBefore(i) ==
    IF i = 1 THEN Date(0) ELSE taker.delivered[i - 1].date

\* The i-th delivered event reset the session: a start, or a tick whose
\* clock date differs from the session date.
ResetAt(i) ==
    \/ taker.delivered[i].event = "start"
    \/ taker.delivered[i].date # SessionDateBefore(i)

\* The index of the last reset, 0 when there was none.
LastReset ==
    LET resets == {i \in DOMAIN taker.delivered : ResetAt(i)}
    IN  IF resets = {} THEN 0
        ELSE CHOOSE i \in resets : \A j \in resets : j <= i

\* The sizes of the ticks of one side delivered since the last reset, the
\* resetting tick included.
SizesSinceReset(side) ==
    [i \in DOMAIN taker.delivered |->
        IF /\ i >= LastReset
           /\ taker.delivered[i].event = "tick"
           /\ {"order_side", "size"} \subseteq taker.delivered[i].tick.attrs
           /\ taker.delivered[i].tick.order_side = side
        THEN taker.delivered[i].tick.size
        ELSE 0]

\* C38: cvd is the sum of the sizes of the BUY ticks minus the sum of the
\* sizes of the SELL ticks delivered since the last session reset, the tick
\* that reset the session included; session_date is the date of the last
\* delivered event and market_open_time is the open time of that date.
C38_CvdSinceReset ==
    /\ taker.cvd = SumSeq(SizesSinceReset("BUY")) - SumSeq(SizesSinceReset("SELL"))
    /\ taker.session_date = SessionDateBefore(Len(taker.delivered) + 1)
    /\ taker.market_open_time = GetMarketOpenTime(taker.session_date)

\* A BUY tick was counted and a SELL tick arrived on the next date: it
\* reset the session and is the one tick counted.
C38_Witness ==
    /\ Len(taker.delivered) = 3
    /\ taker.delivered[1].event = "start"
    /\ taker.delivered[2].event = "tick"
    /\ taker.delivered[3].event = "tick"
    /\ taker.delivered[2].date = taker.delivered[1].date
    /\ taker.delivered[3].date # taker.delivered[2].date
    /\ "order_side" \in taker.delivered[2].tick.attrs
    /\ taker.delivered[2].tick.order_side = "BUY"
    /\ "order_side" \in taker.delivered[3].tick.attrs
    /\ taker.delivered[3].tick.order_side = "SELL"
    /\ taker.cvd = 0 - taker.delivered[3].tick.size
    /\ taker.market_open_time = GetMarketOpenTime(taker.delivered[3].date)

\* The book update of this step came after the wait period.
BookUpdateAfterWait ==
    /\ last'.handler = "on_order_book"
    /\ last'.clock >= taker.market_open_time + wait_minutes_after_open

\* The asks of this step's book hold a level priced above the threshold.
AskLevelAboveThreshold ==
    \E i \in DOMAIN last'.asks : last'.asks[i].price > price_level_threshold

\* This step submitted exactly one market FOK order of the side.
OneMarketOrder(side) ==
    /\ Len(submitted') = Len(submitted) + 1
    /\ SubSeq(submitted', 1, Len(submitted)) = submitted
    /\ submitted'[Len(submitted')].order.order_type = "MARKET"
    /\ submitted'[Len(submitted')].order.time_in_force = "FOK"
    /\ submitted'[Len(submitted')].order.order_side = side
    /\ submitted'[Len(submitted')].order.quantity = taker_trade_size

\* C39: a book update after the wait period that has an ask level priced
\* above price_level_threshold submits exactly one market FOK order, BUY if
\* cvd > cvd_threshold and SELL if cvd < cvd_threshold; it submits none if
\* cvd equals cvd_threshold or no such level exists.  Orders submitted
\* earlier in the session make no difference.
C39_Decision ==
    [][BookUpdateAfterWait
       => /\ (AskLevelAboveThreshold /\ taker.cvd > cvd_threshold)
             => OneMarketOrder("BUY")
          /\ (AskLevelAboveThreshold /\ taker.cvd < cvd_threshold)
             => OneMarketOrder("SELL")
          /\ (~AskLevelAboveThreshold \/ taker.cvd = cvd_threshold)
             => submitted' = submitted]_vars

\* Two book updates of one session, with no start or tick between the
\* first order and the second, each submitted an order.
C39_Witness ==
    /\ last.handler = "on_order_book"
    /\ Len(submitted) = 2
    /\ taker.traded = Some(TRUE)
    /\ LastReset = 1
    /\ Len(taker.delivered) = 3
    /\ Date(submitted[1].ts) = taker.session_date
    /\ Date(submitted[2].ts) = taker.session_date
    /\ submitted[1].ts >= taker.market_open_time + wait_minutes_after_open
    /\ submitted[1].order.order_side = "BUY"
    /\ submitted[2].order.order_side = "BUY"

=============================================================================
